---------------------------- MODULE Spec2Model ----------------------------
(***************************************************************************)
(* Model of the Drive synchronisation code of igitur (src/igitur/drive.py): *)
(* GaudeamDriveFolder, GaudeamDriveFile and GaudeamResizedImageUploader,    *)
(* run against a remote folder store and a local filesystem.                *)
(*                                                                          *)
(* File and folder names are sequences of one-character strings, so that    *)
(* pathlib's stem/suffix, str.lower and the substring test are computed.    *)
(***************************************************************************)
EXTENDS Integers, Sequences, FiniteSets, TLC

VARIABLES
  remote,    \* the nodes of the remote store
  nextId,    \* the id the store gives the next node it creates
  localFs,   \* the entries of the local filesystem
  nextOrd,   \* the id of the next local entry created
  handle,    \* the GaudeamDriveFolder object of the folder worked on
  uploader,  \* the GaudeamResizedImageUploader object
  session,   \* the session file ~/.igitur_session: missing, invalid or valid
  budget,    \* the number of calls a run of the model makes at most
  hist,      \* one record per call made so far
  directory, \* the members the remote holds, in the order of their names
  paging     \* the position and the locals of a get_members call

vars == <<remote, nextId, localFs, nextOrd, handle, uploader, session, budget,
          hist, directory, paging>>

(***************************************************************************)
(* Bounds of the model.                                                     *)
(***************************************************************************)
MaxRemote == 3       \* remote nodes below the root folder
MaxRemoteSync == 2   \* the same, where the local tree varies with it
MaxRemoteDedup == 4  \* the same, before duplicate elimination or pruning
MaxLocal == 2        \* local entries below L
MaxOps == 2          \* calls in a row in the sync specifications
MaxFault == 2        \* the latest request a fault may hit
MaxLocalDeep == 3    \* local entries below L where uploads may fail
MaxPages == 2        \* full pages a listed folder's children fill at most
MaxMix == 5          \* ways the entry types are mixed in a listed folder
MaxMembers == 201    \* members of the directory
MaxShrink == 1       \* members that leave the directory during a call

(***************************************************************************)
(* Characters and strings.                                                  *)
(***************************************************************************)
UpperCase == <<"A","B","C","D","E","F","G","H","I","J","K","L","M",
               "N","O","P","Q","R","S","T","U","V","W","X","Y","Z">>
LowerCase == <<"a","b","c","d","e","f","g","h","i","j","k","l","m",
               "n","o","p","q","r","s","t","u","v","w","x","y","z">>

IsUpper(c) == \E i \in DOMAIN UpperCase : UpperCase[i] = c
IsLower(c) == \E i \in DOMAIN LowerCase : LowerCase[i] = c

\* Code point of a character, the order Python compares strings by.
CodeOf(c) ==
  IF IsUpper(c) THEN 64 + (CHOOSE i \in DOMAIN UpperCase : UpperCase[i] = c)
  ELSE IF IsLower(c) THEN 96 + (CHOOSE i \in DOMAIN LowerCase : LowerCase[i] = c)
  ELSE 46

\* str.lower() on one character and on a string.
LowerChar(c) ==
  IF IsUpper(c) THEN LowerCase[CHOOSE i \in DOMAIN UpperCase : UpperCase[i] = c]
  ELSE c

lower(s) == [i \in DOMAIN s |-> LowerChar(s[i])]

\* The code points of a string.
CodesOf(s) == SubSeq([i \in DOMAIN s |-> CodeOf(s[i])], 1, Len(s))

\* a < b for sequences of code points: lexicographic.
RECURSIVE CodesLess(_, _)
CodesLess(a, b) ==
  IF b = <<>> THEN FALSE
  ELSE IF a = <<>> THEN TRUE
  ELSE IF Head(a) < Head(b) THEN TRUE
  ELSE IF Head(a) > Head(b) THEN FALSE
  ELSE CodesLess(Tail(a), Tail(b))

\* s < t for Python strings (lexicographic by code point).
StrLess(s, t) == CodesLess(CodesOf(s), CodesOf(t))

\* `sub in s` for Python strings.
Contains(s, sub) ==
  \E i \in 0..(Len(s) - Len(sub)) :
    \A j \in 1..Len(sub) : s[i + j] = sub[j]

(***************************************************************************)
(* pathlib: PurePath.suffix and PurePath.stem of a final path component.    *)
(***************************************************************************)
\* name.rfind("."), as a 1-based index, 0 when there is no dot.
RFindDot(name) ==
  IF \E i \in DOMAIN name : name[i] = "."
  THEN CHOOSE i \in DOMAIN name :
         name[i] = "." /\ \A j \in DOMAIN name : name[j] = "." => j <= i
  ELSE 0

HasSuffix(name) == RFindDot(name) > 1 /\ RFindDot(name) < Len(name)

suffix(name) ==
  IF HasSuffix(name) THEN SubSeq(name, RFindDot(name), Len(name)) ELSE <<>>

stem(name) ==
  IF HasSuffix(name) THEN SubSeq(name, 1, RFindDot(name) - 1) ELSE name

(***************************************************************************)
(* Generic sequence helpers.                                                *)
(***************************************************************************)
Range(s) == {s[i] : i \in DOMAIN s}

\* sorted(s, key=lambda f: f.get_name()): stable, ascending by name.  An
\* element's place is the number of elements with a smaller name, plus the
\* number of earlier elements with the same name.
sorted_by_name(s) ==
  LET key == SubSeq([i \in DOMAIN s |-> CodesOf(s[i].name)], 1, Len(s))
      place == SubSeq([i \in DOMAIN s |->
                         Cardinality({j \in DOMAIN s :
                                        \/ CodesLess(key[j], key[i])
                                        \/ s[j].name = s[i].name /\ j < i}) + 1],
                      1, Len(s))
  IN SubSeq([k \in DOMAIN s |-> s[CHOOSE i \in DOMAIN s : place[i] = k]],
            1, Len(s))

\* The elements of a finite set of records in ascending order of field id.
SeqById(S) ==
  LET ranked == {<<Cardinality({y \in S : y.id < x.id}) + 1, x>> : x \in S}
  IN SubSeq([k \in 1..Cardinality(S) |->
               (CHOOSE r \in ranked : r[1] = k)[2]],
            1, Cardinality(S))

(***************************************************************************)
(* The remote store.  A node is a folder-like or file-like record; remote   *)
(* is the set of nodes.  null stands for JSON null / Python None.           *)
(***************************************************************************)
null == "null"

NoError == [class |-> "none", msg |-> ""]

DIRECTORY_LIST_LIMIT == 80

FolderTypes == {"Folder", "Gallery"}
FileTypes == {"Photo", "DriveFile"}

Children(rem, fid) == {n \in rem : n.parent = fid}

\* The nodes below folder fid, fid's own node included.
RECURSIVE Subtree(_, _)
Subtree(rem, fid) ==
  {n \in rem : n.id = fid}
    \cup UNION {Subtree(rem, c.id) : c \in Children(rem, fid)}

\* GET /api/v1/drive/folders?parent_id=..&order=>name&offset=..&limit=..:
\* the children ordered by name ascending, cut to one page.
PageOf(all, offset, limit) ==
  SubSeq(all, offset + 1,
         IF offset + limit < Len(all) THEN offset + limit ELSE Len(all))

ServerPage(rem, fid, offset, limit) ==
  PageOf(sorted_by_name(SeqById(Children(rem, fid))), offset, limit)

\* The type filter left out: every entry of a page is taken.
FilterType_all(batch, types) == batch

\* The entries of a page whose type discriminator is in types.
FilterType(batch, types) == SelectSeq(batch, LAMBDA entry : entry.type \in types)

\* A listing call in progress: the objects collected so far and the offsets
\* of the requests issued so far.
NoListing == [results |-> <<>>, offsets |-> <<>>]

\* The listing call after the request at offset brought the objects found.
Collected(acc, offset, found) ==
  [results |-> acc.results \o found, offsets |-> Append(acc.offsets, offset)]

\* GaudeamDriveFolder.get_sub_folders: the loop from the given offset on;
\* one turn of it, batch being the page the request at offset brought.
RECURSIVE get_sub_folders_from(_, _, _, _)
get_sub_folders_turn(rem, fid, offset, acc, batch) ==
  IF Len(batch) = 0 THEN Collected(acc, offset, <<>>)
  ELSE IF Len(batch) < DIRECTORY_LIST_LIMIT
  THEN Collected(acc, offset, FilterType(batch, FolderTypes))
  ELSE get_sub_folders_from(rem, fid, offset + DIRECTORY_LIST_LIMIT,
                            Collected(acc, offset,
                                      FilterType(batch, FolderTypes)))

get_sub_folders_from(rem, fid, offset, acc) ==
  get_sub_folders_turn(rem, fid, offset, acc,
                       ServerPage(rem, fid, offset, DIRECTORY_LIST_LIMIT))

get_sub_folders_call(rem, fid) == get_sub_folders_from(rem, fid, 0, NoListing)

get_sub_folders(rem, fid) == get_sub_folders_call(rem, fid).results

\* get_files without the stop at a short page: it asks until a page is
\* empty.
RECURSIVE get_files_from_until_empty(_, _, _, _)
get_files_from_until_empty(rem, fid, offset, acc) ==
  LET batch == ServerPage(rem, fid, offset, DIRECTORY_LIST_LIMIT)
  IN IF batch = <<>> THEN Collected(acc, offset, <<>>)
     ELSE get_files_from_until_empty(rem, fid, offset + DIRECTORY_LIST_LIMIT,
                                     Collected(acc, offset,
                                               FilterType(batch, FileTypes)))

\* GaudeamDriveFolder.get_files: the loop from the given offset on; one
\* turn of it, batch being the page the request at offset brought.
RECURSIVE get_files_from(_, _, _, _)
get_files_turn(rem, fid, offset, acc, batch) ==
  IF batch = <<>> THEN Collected(acc, offset, <<>>)
  ELSE IF Len(batch) < DIRECTORY_LIST_LIMIT
  THEN Collected(acc, offset, FilterType(batch, FileTypes))
  ELSE get_files_from(rem, fid, offset + DIRECTORY_LIST_LIMIT,
                      Collected(acc, offset, FilterType(batch, FileTypes)))

get_files_from(rem, fid, offset, acc) ==
  get_files_turn(rem, fid, offset, acc,
                 ServerPage(rem, fid, offset, DIRECTORY_LIST_LIMIT))

get_files_call(rem, fid) == get_files_from(rem, fid, 0, NoListing)

get_files(rem, fid) == get_files_call(rem, fid).results

\* GaudeamDriveFolder.get_name / GaudeamDriveFile.get_name and
\* get_download_name: reads of the cached properties.
get_name_download(props) == props.download_name
get_name(props) == props.name
get_download_name_display(props) == props.name
get_download_name(props) == props.download_name

(***************************************************************************)
(* The running call.  w carries the remote store, the local filesystem,     *)
(* the requests issued so far (log), the pending exception (err), the       *)
(* value returned (ret), the calling folder object (self) and the faults    *)
(* the remote will answer with: the upFail-th upload_file call fails at     *)
(* step upStep, the delFail-th delete request and the dlFail-th file         *)
(* download are answered non-200.                                           *)
(***************************************************************************)
Event(op, target, name, data, dup) ==
  [op |-> op, target |-> target, name |-> name, data |-> data, dup |-> dup]

Log(w, e) == [w EXCEPT !.log = Append(w.log, e)]

\* The requests of a listing call (op is get_sub_folders or get_files) on
\* folder fid, one per offset, added to the requests issued so far.
Listed(w, op, fid, call) ==
  [w EXCEPT !.log = @ \o [k \in DOMAIN call.offsets |->
                            Event(op, fid, <<>>, call.offsets[k], FALSE)]]

Raise(w, msg) == [w EXCEPT !.err = [class |-> "IgiturError", msg |-> msg]]

RaiseAs(w, class, msg) == [w EXCEPT !.err = [class |-> class, msg |-> msg]]

Raised(w) == w.err # NoError

Handle(props) == [folder_id |-> props.id, properties |-> props]

\* GaudeamDriveFolder._get_properties: the folder record, or IgiturError.
get_properties(w, fid) ==
  LET w1 == Log(w, Event("get_properties", fid, <<>>, <<>>, FALSE))
  IN IF \E n \in w.remote : n.id = fid
     THEN [w1 EXCEPT !.ret = CHOOSE n \in w.remote : n.id = fid]
     ELSE Raise(w1, "Error fetching drive folder properties")

\* GaudeamDriveFolder.__init__(session, folder_id) with properties = None.
NewFolder(w, fid) ==
  LET w1 == get_properties(w, fid)
  IN IF Raised(w1) THEN w1
     ELSE [w1 EXCEPT !.ret = [folder_id |-> fid, properties |-> w1.ret]]

\* The inode of the create request: ownership copied from the parent.
\* unsupported marks the branch that raises.
unsupported == "unsupported"

\* CreateData with the Group branch dropping the restriction group.
CreateData_unrestricted(self, name) ==
  LET owner_type == self.properties.owner_type
      base == [name |-> name,
               owner_id |-> self.properties.owner_id,
               parent_id |-> self.folder_id,
               type |-> "Folder"]
  IN IF owner_type = "Group"
     THEN base @@ [owner_type |-> "Group",
                   restrict_to_id |-> null]
     ELSE IF owner_type = "GroupMember"
     THEN base @@ [owner_type |-> "GroupMember", restrict_to_id |-> null]
     ELSE IF owner_type = null
     THEN base @@ [owner_type |-> null, restrict_to_id |-> null]
     ELSE base @@ [owner_type |-> unsupported, restrict_to_id |-> null]

\* CreateData without the raising else branch.
CreateData_no_else(self, name) ==
  LET owner_type == self.properties.owner_type
      base == [name |-> name,
               owner_id |-> self.properties.owner_id,
               parent_id |-> self.folder_id,
               type |-> "Folder"]
  IN IF owner_type = "Group"
     THEN base @@ [owner_type |-> "Group",
                   restrict_to_id |-> self.properties.restrict_to]
     ELSE IF owner_type = "GroupMember"
     THEN base @@ [owner_type |-> "GroupMember", restrict_to_id |-> null]
     ELSE IF owner_type = null
     THEN base @@ [owner_type |-> null, restrict_to_id |-> null]
     ELSE base @@ [owner_type |-> null, restrict_to_id |-> null]

CreateData(self, name) ==
  LET owner_type == self.properties.owner_type
      base == [name |-> name,
               owner_id |-> self.properties.owner_id,
               parent_id |-> self.folder_id,
               type |-> "Folder"]
  IN IF owner_type = "Group"
     THEN base @@ [owner_type |-> "Group",
                   restrict_to_id |-> self.properties.restrict_to]
     ELSE IF owner_type = "GroupMember"
     THEN base @@ [owner_type |-> "GroupMember", restrict_to_id |-> null]
     ELSE IF owner_type = null
     THEN base @@ [owner_type |-> null, restrict_to_id |-> null]
     ELSE base @@ [owner_type |-> unsupported, restrict_to_id |-> null]

\* POST /api/v1/drive/folders: the store adds the folder it was asked for.
ServerCreateFolder(w, data) ==
  [w EXCEPT !.remote = @ \cup {[id |-> w.nextId,
                                parent |-> data.parent_id,
                                type |-> data.type,
                                name |-> data.name,
                                download_name |-> <<>>,
                                owner_type |-> data.owner_type,
                                owner_id |-> data.owner_id,
                                restrict_to |-> data.restrict_to_id]},
              !.nextId = @ + 1,
              !.ret = w.nextId]

\* GaudeamDriveFolder.create_sub_folder on the folder object self: w.ret is
\* the new folder object, w.self the parent object with refreshed properties.
create_sub_folder(w, self, name) ==
  LET data == CreateData(self, name)
  IN IF data.owner_type = unsupported
     THEN Raise(w, "cannot create file as parent is not owned by GroupMember or Group")
     ELSE
       LET dup == \E n \in Children(w.remote, self.folder_id) :
                    n.type \in FolderTypes /\ n.name = name
           w1 == Log(w, Event("create_folder", self.folder_id, name, data, dup))
       IN IF ~(\E n \in w.remote : n.id = self.folder_id)
          THEN Raise(w1, "Error creating sub-folder")
          ELSE
            LET w2 == ServerCreateFolder(w1, data)
                new_folder_id == w2.ret
                w3 == get_properties(w2, self.folder_id)
                w4 == [w3 EXCEPT !.self = [self EXCEPT !.properties = w3.ret]]
            IN IF Raised(w3) THEN w3 ELSE NewFolder(w4, new_folder_id)

\* Whether the next delete request is the one the remote answers non-200.
DeleteFails(w) == w.nDel + 1 = w.faults.delFail

\* DELETE of a folder or file: the store removes the node and what is below.
ServerDelete(w, id) == [w EXCEPT !.remote = @ \ Subtree(w.remote, id)]

\* GaudeamDriveFolder.delete: True, or IgiturError on a non-200 answer.
delete_folder(w, props) ==
  LET w1 == [Log(w, Event("delete_folder", props.id, props.name, <<>>, FALSE))
               EXCEPT !.nDel = @ + 1]
  IN IF DeleteFails(w) \/ ~(\E n \in w.remote : n.id = props.id)
     THEN Raise(w1, "Error deleting folder")
     ELSE [ServerDelete(w1, props.id) EXCEPT !.ret = TRUE]

\* GaudeamDriveFile.delete: True, or False on a non-200 answer.
delete_file(w, props) ==
  LET w1 == [Log(w, Event("delete_file", props.id, props.download_name, <<>>, FALSE))
               EXCEPT !.nDel = @ + 1]
  IN IF DeleteFails(w) \/ ~(\E n \in w.remote : n.id = props.id)
     THEN [w1 EXCEPT !.ret = FALSE]
     ELSE [ServerDelete(w1, props.id) EXCEPT !.ret = TRUE]

\* The loop `for folder in self.get_sub_folders()` of delete_content.
RECURSIVE delete_content_folders(_, _, _, _)
delete_content_folders(w, folders, i, success) ==
  IF i > Len(folders) THEN [w EXCEPT !.ret = success]
  ELSE
    LET w1 == delete_folder(w, folders[i])
    IN IF Raised(w1) THEN w1
       ELSE delete_content_folders(w1, folders, i + 1, success /\ w1.ret)

\* The loop `for file in self.get_files()` of delete_content.
RECURSIVE delete_content_files(_, _, _, _)
delete_content_files(w, files, i, success) ==
  IF i > Len(files) THEN [w EXCEPT !.ret = success]
  ELSE
    LET w1 == delete_file(w, files[i])
    IN delete_content_files(w1, files, i + 1, success /\ w1.ret)

\* GaudeamDriveFolder.delete_content
delete_content(w, self) ==
  LET folders == get_sub_folders_call(w.remote, self.folder_id)
      w1 == delete_content_folders(
              Listed(w, "get_sub_folders", self.folder_id, folders),
              folders.results, 1, TRUE)
  IN IF Raised(w1) THEN w1
     ELSE
       LET files == get_files_call(w1.remote, self.folder_id)
       IN delete_content_files(
            Listed(w1, "get_files", self.folder_id, files),
            files.results, 1, w1.ret)

\* POST /api/v1/drive/uploaded_files: the store adds the file; its display
\* name is the name sent, its download name the uploaded file's name.
ServerRegisterFile(w, parent_id, name, filename) ==
  [w EXCEPT !.remote = @ \cup {[id |-> w.nextId,
                                parent |-> parent_id,
                                type |-> "DriveFile",
                                name |-> name,
                                download_name |-> filename,
                                owner_type |-> null,
                                owner_id |-> null,
                                restrict_to |-> null]},
              !.nextId = @ + 1]

\* Whether this upload_file call (the nUp-th) fails at the given step.
UploadFailsAt(w, step) == w.nUp = w.faults.upFail /\ w.faults.upStep = step

\* upload_file going on to the registration whatever the storage POST
\* answered.
upload_file_unchecked_store(w, self, filename) ==
  LET dup == \E n \in Children(w.remote, self.folder_id) :
               n.type \in FileTypes /\ n.download_name = filename
      w0 == [Log(w, Event("upload_file", self.folder_id, filename, <<>>, dup))
               EXCEPT !.nUp = @ + 1]
      w1 == Log(w0, Event("sign", self.folder_id, filename, <<>>, dup))
      w2 == Log(w1, Event("store", self.folder_id, filename, <<>>, dup))
      w3 == Log(w2, Event("register", self.folder_id, filename,
                          [name |-> stem(filename), parent_id |-> self.folder_id],
                          dup))
  IN IF UploadFailsAt(w0, "sign") THEN [w1 EXCEPT !.ret = FALSE]
     ELSE IF UploadFailsAt(w0, "connect")
     THEN RaiseAs(w2, "ConnectionError", "postEndpoint")
     ELSE IF UploadFailsAt(w0, "register")
             \/ ~(\E n \in w.remote : n.id = self.folder_id)
     THEN [w3 EXCEPT !.ret = FALSE]
     ELSE [ServerRegisterFile(w3, self.folder_id, stem(filename), filename)
             EXCEPT !.ret = TRUE]

\* GaudeamDriveFolder.upload_file of the local file named filename:
\* sign, store, register; False at the first step that fails.  The POST to
\* the storage endpoint goes through requests.post directly and raises when
\* the endpoint cannot be reached (fault step "connect").
upload_file(w, self, filename) ==
  LET dup == \E n \in Children(w.remote, self.folder_id) :
               n.type \in FileTypes /\ n.download_name = filename
      w0 == [Log(w, Event("upload_file", self.folder_id, filename, <<>>, dup))
               EXCEPT !.nUp = @ + 1]
      w1 == Log(w0, Event("sign", self.folder_id, filename, <<>>, dup))
      w2 == Log(w1, Event("store", self.folder_id, filename, <<>>, dup))
      w3 == Log(w2, Event("register", self.folder_id, filename,
                          [name |-> stem(filename), parent_id |-> self.folder_id],
                          dup))
  IN IF UploadFailsAt(w0, "sign") THEN [w1 EXCEPT !.ret = FALSE]
     ELSE IF UploadFailsAt(w0, "connect")
     THEN RaiseAs(w2, "ConnectionError", "postEndpoint")
     ELSE IF UploadFailsAt(w0, "store") THEN [w2 EXCEPT !.ret = FALSE]
     ELSE IF UploadFailsAt(w0, "register")
             \/ ~(\E n \in w.remote : n.id = self.folder_id)
     THEN [w3 EXCEPT !.ret = FALSE]
     ELSE [ServerRegisterFile(w3, self.folder_id, stem(filename), filename)
             EXCEPT !.ret = TRUE]

(***************************************************************************)
(* The local filesystem: a set of entries [path, kind, id, content].  A     *)
(* path is a sequence of names; id orders a directory's entries the way     *)
(* iterdir yields them; content 0 is a file's original content, n > 0 the   *)
(* content downloaded from remote file n.                                   *)
(***************************************************************************)
exists(fs, path) == \E e \in fs : e.path = path
is_dir(fs, path) == \E e \in fs : e.path = path /\ e.kind = "dir"
is_file(fs, path) == \E e \in fs : e.path = path /\ e.kind = "file"

EntryName(e) == e.path[Len(e.path)]

\* Path.iterdir(): the entries directly below path.
iterdir(fs, path) ==
  SeqById({e \in fs : Len(e.path) = Len(path) + 1
                      /\ SubSeq(e.path, 1, Len(path)) = path})

\* Path.mkdir() without parents: only the final component is created.
mkdir_single(w, path) ==
  IF path = <<>> \/ exists(w.localFs, path) THEN w
  ELSE [w EXCEPT !.localFs = @ \cup {[path |-> path, kind |-> "dir",
                                      id |-> w.nextOrd, content |-> 0]},
                 !.nextOrd = @ + 1]

\* Path.mkdir(parents=True): path and every missing ancestor become
\* directories; below a regular file nothing can be created.
RECURSIVE mkdir_parents(_, _)
mkdir_parents(w, path) ==
  IF path = <<>> \/ exists(w.localFs, path) THEN w
  ELSE LET parent == SubSeq(path, 1, Len(path) - 1)
           w1 == mkdir_parents(w, parent)
       IN IF Raised(w1) THEN w1
          ELSE IF parent # <<>> /\ ~is_dir(w1.localFs, parent)
          THEN RaiseAs(w1, "NotADirectoryError", "mkdir")
          ELSE [w1 EXCEPT !.localFs = @ \cup {[path |-> path, kind |-> "dir",
                                               id |-> w1.nextOrd,
                                               content |-> 0]},
                          !.nextOrd = @ + 1]

\* open(file_path, "wb") and write: the file is created or overwritten.
write_file(w, path, content) ==
  IF exists(w.localFs, path)
  THEN [w EXCEPT !.localFs =
          {IF e.path = path THEN [e EXCEPT !.content = content] ELSE e : e \in @}]
  ELSE [w EXCEPT !.localFs = @ \cup {[path |-> path, kind |-> "file",
                                      id |-> w.nextOrd, content |-> content]},
                 !.nextOrd = @ + 1]

\* Whether the next file download is the one the remote answers non-200.
DownloadFails(w) == w.nDl + 1 = w.faults.dlFail

\* The content of a file written from the body of a non-200 answer.
ErrorBody == -1

\* GaudeamDriveFile.download that writes nothing when the answer is not 200.
download_file_checked(w, props, path) ==
  LET w1 == [Log(w, Event("download", props.id, props.download_name, path, FALSE))
               EXCEPT !.nDl = @ + 1]
  IN IF DownloadFails(w) THEN w1 ELSE write_file(w1, path, props.id)

\* GaudeamDriveFile.download: fetch and write, whatever the answer.
download_file(w, props, path) ==
  write_file([Log(w, Event("download", props.id, props.download_name, path, FALSE))
                EXCEPT !.nDl = @ + 1],
             path, IF DownloadFails(w) THEN ErrorBody ELSE props.id)

(***************************************************************************)
(* GaudeamDriveFolder.upload_folder and GaudeamDriveFolder.download.        *)
(***************************************************************************)
\* The first element of the listing whose name is name, as the for/else of
\* the source finds it; found tells whether the loop hit its break.
\* The search that never hits: every directory entry gets a new folder.
FirstNamed_none(listing, name) == [found |-> FALSE, props |-> <<>>]

FirstNamed(listing, name) ==
  LET hits == {i \in DOMAIN listing : get_name(listing[i]) = name}
  IN IF hits = {} THEN [found |-> FALSE, props |-> <<>>]
     ELSE [found |-> TRUE,
           props |-> listing[CHOOSE i \in hits : \A j \in hits : i <= j]]

RECURSIVE upload_folder(_, _, _)
RECURSIVE upload_entries(_, _, _, _)

\* The loop leaving at the first file that exists remotely, instead of going
\* on with the next entry.
upload_entries_leaving_at_existing(w, self, entries, i) ==
  IF i > Len(entries) THEN [w EXCEPT !.ret = TRUE, !.self = self]
  ELSE
    LET entry == entries[i]
    IN IF entry.kind = "file"
       THEN
         LET files == get_files_call(w.remote, self.folder_id)
             wl == Listed(w, "get_files", self.folder_id, files)
         IN IF \E f \in Range(files.results) :
                 get_download_name(f) = EntryName(entry)
            THEN [wl EXCEPT !.ret = TRUE, !.self = self]
            ELSE
              LET w1 == upload_file(wl, self, EntryName(entry))
              IN IF Raised(w1) THEN w1
                 ELSE IF ~w1.ret THEN [w1 EXCEPT !.ret = FALSE, !.self = self]
                 ELSE upload_entries(w1, self, entries, i + 1)
       ELSE
         LET folders == get_sub_folders_call(w.remote, self.folder_id)
             wl == Listed(w, "get_sub_folders", self.folder_id, folders)
             hit == FirstNamed(folders.results, EntryName(entry))
             w1 == IF hit.found THEN [wl EXCEPT !.ret = Handle(hit.props)]
                   ELSE create_sub_folder(wl, self, EntryName(entry))
             self1 == IF hit.found THEN self ELSE w1.self
         IN IF Raised(w1) THEN w1
            ELSE
              LET w2 == upload_folder(w1, w1.ret, entry.path)
              IN IF Raised(w2) THEN w2
                 ELSE IF ~w2.ret THEN [w2 EXCEPT !.ret = FALSE, !.self = self1]
                 ELSE upload_entries(w2, self1, entries, i + 1)

\* The loop `for entry in local_folder_path.iterdir()` from entry i on.
upload_entries(w, self, entries, i) ==
  IF i > Len(entries) THEN [w EXCEPT !.ret = TRUE, !.self = self]
  ELSE
    LET entry == entries[i]
    IN IF entry.kind = "file"
       THEN
         LET files == get_files_call(w.remote, self.folder_id)
             wl == Listed(w, "get_files", self.folder_id, files)
         IN IF \E f \in Range(files.results) :
                 get_download_name(f) = EntryName(entry)
            THEN upload_entries(wl, self, entries, i + 1)
            ELSE
              LET w1 == upload_file(wl, self, EntryName(entry))
              IN IF Raised(w1) THEN w1
                 ELSE IF ~w1.ret THEN [w1 EXCEPT !.ret = FALSE, !.self = self]
                 ELSE upload_entries(w1, self, entries, i + 1)
       ELSE
         LET folders == get_sub_folders_call(w.remote, self.folder_id)
             wl == Listed(w, "get_sub_folders", self.folder_id, folders)
             hit == FirstNamed(folders.results, EntryName(entry))
             w1 == IF hit.found THEN [wl EXCEPT !.ret = Handle(hit.props)]
                   ELSE create_sub_folder(wl, self, EntryName(entry))
             self1 == IF hit.found THEN self ELSE w1.self
         IN IF Raised(w1) THEN w1
            ELSE
              LET w2 == upload_folder(w1, w1.ret, entry.path)
              IN IF Raised(w2) THEN w2
                 ELSE IF ~w2.ret THEN [w2 EXCEPT !.ret = FALSE, !.self = self1]
                 ELSE upload_entries(w2, self1, entries, i + 1)

upload_folder(w, self, local_folder_path) ==
  IF ~is_dir(w.localFs, local_folder_path)
  THEN [w EXCEPT !.ret = FALSE, !.self = self]
  ELSE upload_entries(w, self, iterdir(w.localFs, local_folder_path), 1)

RECURSIVE download(_, _, _)
RECURSIVE download_sub_folders(_, _, _, _)

\* download_files without the test for an existing destination file.
RECURSIVE download_files_overwriting(_, _, _, _)
download_files_overwriting(w, files, destination_folder, i) ==
  IF i > Len(files) THEN w
  ELSE download_files_overwriting(
         download_file(w, files[i],
                       Append(destination_folder, get_download_name(files[i]))),
         files, destination_folder, i + 1)

\* The loop `for file_in_folder in self.get_files()` from file i on.
RECURSIVE download_files(_, _, _, _)
download_files(w, files, destination_folder, i) ==
  IF i > Len(files) THEN w
  ELSE
    LET destination_file ==
          Append(destination_folder, get_download_name(files[i]))
    IN IF exists(w.localFs, destination_file)
       THEN download_files(w, files, destination_folder, i + 1)
       ELSE download_files(download_file(w, files[i], destination_file),
                           files, destination_folder, i + 1)

\* The loop `for sub_folder in self.get_sub_folders()` from folder i on.
download_sub_folders(w, folders, destination_folder, i) ==
  IF i > Len(folders) THEN w
  ELSE
    LET w1 == download(w, Handle(folders[i]),
                       Append(destination_folder, get_name(folders[i])))
    IN IF Raised(w1) THEN w1
       ELSE download_sub_folders(w1, folders, destination_folder, i + 1)

\* The file loop put before the sub-folder loop.
download_files_first(w, self, destination_folder) ==
  LET w1 == IF ~exists(w.localFs, destination_folder)
            THEN mkdir_parents(w, destination_folder) ELSE w
  IN IF Raised(w1) THEN w1
     ELSE IF ~is_dir(w1.localFs, destination_folder)
     THEN Raise(w1, "Destination path is not a directory")
     ELSE
       LET files == get_files_call(w1.remote, self.folder_id)
           w2 == download_files(
                   Listed(w1, "get_files", self.folder_id, files),
                   files.results, destination_folder, 1)
           folders == get_sub_folders_call(w2.remote, self.folder_id)
       IN [download_sub_folders(
             Listed(w2, "get_sub_folders", self.folder_id, folders),
             folders.results, destination_folder, 1)
             EXCEPT !.ret = null]

\* GaudeamDriveFolder.download: the function ends without a return value.
download(w, self, destination_folder) ==
  LET w1 == IF ~exists(w.localFs, destination_folder)
            THEN mkdir_parents(w, destination_folder) ELSE w
  IN IF Raised(w1) THEN w1
     ELSE IF ~is_dir(w1.localFs, destination_folder)
     THEN Raise(w1, "Destination path is not a directory")
     ELSE
       LET folders == get_sub_folders_call(w1.remote, self.folder_id)
           w2 == download_sub_folders(
                   Listed(w1, "get_sub_folders", self.folder_id, folders),
                   folders.results, destination_folder, 1)
       IN IF Raised(w2) THEN w2
          ELSE
            LET files == get_files_call(w2.remote, self.folder_id)
            IN [download_files(Listed(w2, "get_files", self.folder_id, files),
                               files.results, destination_folder, 1)
                  EXCEPT !.ret = null]

(***************************************************************************)
(* GaudeamResizedImageUploader.  up is the uploader object:                 *)
(* [skip_file_names, allowed_extensions].                                   *)
(***************************************************************************)
allowed_extensions == {<<".", "j", "p", "g">>,
                       <<".", "j", "p", "e", "g">>,
                       <<".", "p", "n", "g">>}

\* _in_allowed_extensions without lower().
in_allowed_extensions_exact(up, name) == suffix(name) \in up.allowed_extensions

\* _in_allowed_extensions
in_allowed_extensions(up, name) == lower(suffix(name)) \in up.allowed_extensions

\* _in_skip_files without lower().
in_skip_files_exact(up, name) ==
  \E k \in DOMAIN up.skip_file_names : Contains(name, up.skip_file_names[k])

\* _in_skip_files
in_skip_files(up, name) ==
  \E k \in DOMAIN up.skip_file_names :
    Contains(lower(name), lower(up.skip_file_names[k]))

\* _get_target_name_from_file_path
\* The target name left as the source name.
get_target_name_from_file_path_same(name) == name

get_target_name_from_file_path(name) == stem(name) \o <<".", "j", "p", "g">>

\* _file_name_exists
file_name_exists(file_name, gaudeam_files_in_folder) ==
  \E i \in DOMAIN gaudeam_files_in_folder :
    get_download_name(gaudeam_files_in_folder[i]) = file_name

\* The adjacent-pair scan of delete_duplicates over a name-sorted listing,
\* from element i on, first being the element kept last; isFolder tells
\* which delete the elements have.
RECURSIVE scan_duplicates(_, _, _, _, _, _)
scan_duplicates(w, listing, first, i, isFolder, dry_run) ==
  IF i > Len(listing) THEN w
  ELSE
    LET next == listing[i]
    IN IF get_name(first) = get_name(next)
       THEN
         IF ~dry_run
         THEN
           LET w1 == IF isFolder THEN delete_folder(w, next)
                     ELSE delete_file(w, next)
           IN IF Raised(w1) THEN w1
              ELSE scan_duplicates(w1, listing, first, i + 1, isFolder, dry_run)
         ELSE scan_duplicates(w, listing, first, i + 1, isFolder, dry_run)
       ELSE scan_duplicates(w, listing, next, i + 1, isFolder, dry_run)

clean_duplicates(w, listing, isFolder, dry_run) ==
  IF Len(listing) > 0
  THEN scan_duplicates(w, listing, listing[1], 2, isFolder, dry_run)
  ELSE w

RECURSIVE delete_duplicates(_, _, _)
RECURSIVE delete_duplicates_in(_, _, _, _)

\* delete_duplicates that stops at the first level.
delete_duplicates_in_none(w, sub_folders, i, dry_run) == w

\* The loop `for sub_folder in sub_folders` of delete_duplicates.
delete_duplicates_in(w, sub_folders, i, dry_run) ==
  IF i > Len(sub_folders) THEN w
  ELSE
    LET w1 == delete_duplicates(w, sub_folders[i], dry_run)
    IN IF Raised(w1) THEN w1
       ELSE delete_duplicates_in(w1, sub_folders, i + 1, dry_run)

delete_duplicates(w, gaudeam_folder, dry_run) ==
  LET sub_folders == get_sub_folders_call(w.remote, gaudeam_folder.id)
      w1 == clean_duplicates(
              Listed(w, "get_sub_folders", gaudeam_folder.id, sub_folders),
              sorted_by_name(sub_folders.results), TRUE, dry_run)
  IN IF Raised(w1) THEN w1
     ELSE
       LET sub_files == get_files_call(w1.remote, gaudeam_folder.id)
           w2 == clean_duplicates(
                   Listed(w1, "get_files", gaudeam_folder.id, sub_files),
                   sorted_by_name(sub_files.results), FALSE, dry_run)
           leftover == get_sub_folders_call(w2.remote, gaudeam_folder.id)
       IN [delete_duplicates_in(
             Listed(w2, "get_sub_folders", gaudeam_folder.id, leftover),
             leftover.results, 1, dry_run)
             EXCEPT !.ret = null]

RECURSIVE delete_empty_sub_folders(_, _, _)
RECURSIVE delete_empty_in(_, _, _, _)

\* The loop `for sub_folder in sub_folders` of delete_empty_sub_folders.
delete_empty_in(w, sub_folders, i, dry_run) ==
  IF i > Len(sub_folders) THEN w
  ELSE
    LET w1 == delete_empty_sub_folders(w, sub_folders[i], dry_run)
    IN IF Raised(w1) THEN w1
       ELSE delete_empty_in(w1, sub_folders, i + 1, dry_run)

\* delete_empty_sub_folders deciding on the listing taken before the
\* sub-folders were processed.
delete_empty_sub_folders_stale(w, gaudeam_folder, dry_run) ==
  LET sub_folders == get_sub_folders_call(w.remote, gaudeam_folder.id)
      wl == Listed(w, "get_sub_folders", gaudeam_folder.id, sub_folders)
      w1 == IF Len(sub_folders.results) > 0
            THEN delete_empty_in(wl, sub_folders.results, 1, dry_run) ELSE wl
  IN IF Raised(w1) THEN w1
     ELSE
       LET files == get_files_call(w1.remote, gaudeam_folder.id)
           w3 == Listed(w1, "get_files", gaudeam_folder.id, files)
       IN IF Len(sub_folders.results) + Len(files.results) = 0 /\ ~dry_run
          THEN [delete_folder(w3, gaudeam_folder) EXCEPT !.ret = null]
          ELSE [w3 EXCEPT !.ret = null]

\* delete_empty_sub_folders taking a folder without sub-folders for empty,
\* whatever files it holds.
delete_empty_sub_folders_files_uncounted(w, gaudeam_folder, dry_run) ==
  LET sub_folders == get_sub_folders_call(w.remote, gaudeam_folder.id)
      wl == Listed(w, "get_sub_folders", gaudeam_folder.id, sub_folders)
      w1 == IF Len(sub_folders.results) > 0
            THEN delete_empty_in(wl, sub_folders.results, 1, dry_run) ELSE wl
  IN IF Raised(w1) THEN w1
     ELSE
       LET again == get_sub_folders_call(w1.remote, gaudeam_folder.id)
           files == get_files_call(w1.remote, gaudeam_folder.id)
           w3 == Listed(w1, "get_files", gaudeam_folder.id, files)
       IN IF Len(again.results) = 0 /\ ~dry_run
          THEN [delete_folder(w3, gaudeam_folder) EXCEPT !.ret = null]
          ELSE [w3 EXCEPT !.ret = null]

delete_empty_sub_folders(w, gaudeam_folder, dry_run) ==
  LET sub_folders == get_sub_folders_call(w.remote, gaudeam_folder.id)
      wl == Listed(w, "get_sub_folders", gaudeam_folder.id, sub_folders)
      w1 == IF Len(sub_folders.results) > 0
            THEN delete_empty_in(wl, sub_folders.results, 1, dry_run) ELSE wl
  IN IF Raised(w1) THEN w1
     ELSE
       LET again == IF Len(sub_folders.results) > 0
                    THEN get_sub_folders_call(w1.remote, gaudeam_folder.id)
                    ELSE sub_folders
           w2 == IF Len(sub_folders.results) > 0
                 THEN Listed(w1, "get_sub_folders", gaudeam_folder.id, again)
                 ELSE w1
           files == get_files_call(w2.remote, gaudeam_folder.id)
           w3 == Listed(w2, "get_files", gaudeam_folder.id, files)
       IN IF Len(again.results) + Len(files.results) = 0 /\ ~dry_run
          THEN [delete_folder(w3, gaudeam_folder) EXCEPT !.ret = null]
          ELSE [w3 EXCEPT !.ret = null]

\* The names of the directories directly below a local directory.
local_sub_folders(fs, path) ==
  {EntryName(e) : e \in {x \in Range(iterdir(fs, path)) : x.kind = "dir"}}

\* The names of the files that pass the filters, taken as they are.
local_target_file_names_as_named(up, fs, path) ==
  {EntryName(e) :
     e \in {x \in Range(iterdir(fs, path)) :
              /\ x.kind = "file"
              /\ in_allowed_extensions(up, EntryName(x))
              /\ ~in_skip_files(up, EntryName(x))}}

\* The target names derived from the files directly below a local directory
\* that pass the extension filter and the skip filter.
local_target_file_names(up, fs, path) ==
  {get_target_name_from_file_path(EntryName(e)) :
     e \in {x \in Range(iterdir(fs, path)) :
              /\ x.kind = "file"
              /\ in_allowed_extensions(up, EntryName(x))
              /\ ~in_skip_files(up, EntryName(x))}}

\* The dry_run the recursive call of delete_remote_orphan_files runs with:
\* the call passes no dry_run, so the parameter takes its default.
OrphanRecursionDryRun(dry_run) == FALSE

RECURSIVE delete_remote_orphan_files(_, _, _, _, _)

\* The loop `for gaudeam_sub_folder in gaudeam_folder.get_sub_folders()`.
RECURSIVE orphan_folders(_, _, _, _, _, _)
orphan_folders(w, up, local_folder_path, folders, i, dry_run) ==
  IF i > Len(folders) THEN w
  ELSE
    LET f == folders[i]
        w1 == IF get_name(f) \notin local_sub_folders(w.localFs, local_folder_path)
              THEN IF ~dry_run THEN delete_folder(w, f) ELSE w
              ELSE delete_remote_orphan_files(
                     w, up, Append(local_folder_path, get_name(f)), f,
                     OrphanRecursionDryRun(dry_run))
    IN IF Raised(w1) THEN w1
       ELSE orphan_folders(w1, up, local_folder_path, folders, i + 1, dry_run)

\* The loop `for gaudeam_sub_file in gaudeam_folder.get_files()`.
RECURSIVE orphan_files(_, _, _, _, _)
orphan_files(w, targets, files, i, dry_run) ==
  IF i > Len(files) THEN w
  ELSE
    LET f == files[i]
        w1 == IF get_download_name(f) \notin targets /\ ~dry_run
              THEN delete_file(w, f) ELSE w
    IN orphan_files(w1, targets, files, i + 1, dry_run)

delete_remote_orphan_files(w, up, local_folder_path, gaudeam_folder, dry_run) ==
  IF ~is_dir(w.localFs, local_folder_path)
  THEN [w EXCEPT !.err = [class |-> "OSError", msg |-> "iterdir"]]
  ELSE
    LET targets == local_target_file_names(up, w.localFs, local_folder_path)
        folders == get_sub_folders_call(w.remote, gaudeam_folder.id)
        w1 == orphan_folders(
                Listed(w, "get_sub_folders", gaudeam_folder.id, folders),
                up, local_folder_path, folders.results, 1, dry_run)
    IN IF Raised(w1) THEN w1
       ELSE
         LET files == get_files_call(w1.remote, gaudeam_folder.id)
         IN [orphan_files(Listed(w1, "get_files", gaudeam_folder.id, files),
                          targets, files.results, 1, dry_run)
               EXCEPT !.ret = null]

\* tempfile.TemporaryDirectory().__enter__: the directory d exists.
TemporaryDirectory(w, d) ==
  [w EXCEPT !.tmp = @ \cup {[dir |-> d, name |-> <<>>]}]

\* A context manager that removes the directory only when the block was
\* left without an exception and with a successful upload.
TemporaryDirectory_exit_on_success(w, d) ==
  IF Raised(w) \/ w.ret # TRUE THEN w
  ELSE [w EXCEPT !.tmp = {t \in @ : t.dir # d}]

\* TemporaryDirectory.__exit__: the directory and what it holds are removed,
\* however the block was left.
TemporaryDirectory_exit(w, d) ==
  [w EXCEPT !.tmp = {t \in @ : t.dir # d}]

\* Whether the image transform of the next upload raises.
TransformFails(w) ==
  w.nUp + 1 = w.faults.upFail /\ w.faults.upStep = "transform"

\* save_as_jpeg_resized(entry, tmpdir / target_name): the re-encoded image is
\* written below directory d, or Image.open raises.
save_as_jpeg_resized(w, self, name, d, target_name) ==
  IF TransformFails(w)
  THEN RaiseAs(Log(w, Event("resize", self.folder_id, name, target_name, FALSE)),
               "UnidentifiedImageError", "cannot identify image file")
  ELSE [Log(w, Event("resize", self.folder_id, name, target_name, FALSE))
          EXCEPT !.tmp = @ \cup {[dir |-> d, name |-> target_name]}]

\* The block `with tempfile.TemporaryDirectory() as tmpdirname:` for one
\* entry: transform, then upload of the transformed file.
resized_upload(w, self, name, d, target_name) ==
  LET w1 == save_as_jpeg_resized(TemporaryDirectory(w, d), self, name, d,
                                 target_name)
  IN TemporaryDirectory_exit(IF Raised(w1) THEN w1
                             ELSE upload_file(w1, self, target_name), d)

RECURSIVE upload_folder_resized(_, _, _, _)

\* The loop `for entry in local_folder_path.iterdir()` of
\* upload_folder_resized from entry i on, with the two listings fetched
\* before the loop.
RECURSIVE resized_entries(_, _, _, _, _, _, _)
resized_entries(w, up, self, files_in_folder, sub_folders_in_folder, entries, i) ==
  IF i > Len(entries) THEN [w EXCEPT !.ret = TRUE, !.self = self]
  ELSE
    LET entry == entries[i]
        target_name == get_target_name_from_file_path(EntryName(entry))
    IN IF entry.kind = "file"
       THEN
         IF \/ ~in_allowed_extensions(up, EntryName(entry))
            \/ in_skip_files(up, EntryName(entry))
            \/ file_name_exists(target_name, files_in_folder)
         THEN resized_entries(w, up, self, files_in_folder,
                              sub_folders_in_folder, entries, i + 1)
         ELSE
           LET w2 == resized_upload(w, self, EntryName(entry), w.nUp + 1,
                                    target_name)
           IN IF Raised(w2) THEN w2
              ELSE IF ~w2.ret THEN [w2 EXCEPT !.ret = FALSE, !.self = self]
              ELSE resized_entries(w2, up, self, files_in_folder,
                                   sub_folders_in_folder, entries, i + 1)
       ELSE
         LET hit == FirstNamed(sub_folders_in_folder, EntryName(entry))
             w1 == IF hit.found THEN [w EXCEPT !.ret = Handle(hit.props)]
                   ELSE create_sub_folder(w, self, EntryName(entry))
             self1 == IF hit.found THEN self ELSE w1.self
         IN IF Raised(w1) THEN w1
            ELSE
              LET w2 == upload_folder_resized(w1, up, entry.path, w1.ret)
              IN IF Raised(w2) THEN w2
                 ELSE IF ~w2.ret
                 THEN [w2 EXCEPT !.err = [class |-> "AttributeError",
                                          msg |-> "entry.path"]]
                 ELSE resized_entries(w2, up, self1, files_in_folder,
                                      sub_folders_in_folder, entries, i + 1)

upload_folder_resized(w, up, local_folder_path, gaudeam_folder) ==
  IF ~is_dir(w.localFs, local_folder_path)
  THEN [w EXCEPT !.ret = FALSE, !.self = gaudeam_folder]
  ELSE
    LET files == get_files_call(w.remote, gaudeam_folder.folder_id)
        folders == get_sub_folders_call(w.remote, gaudeam_folder.folder_id)
        w1 == Listed(w, "get_files", gaudeam_folder.folder_id, files)
        w2 == Listed(w1, "get_sub_folders", gaudeam_folder.folder_id, folders)
    IN resized_entries(w2, up, gaudeam_folder, files.results, folders.results,
                       iterdir(w.localFs, local_folder_path), 1)

(***************************************************************************)
(* The command line interface (src/src/igitur/cli.py, and the earlier       *)
(* src/igitur/cli.py).  sess is the state of the session file.              *)
(***************************************************************************)
IgiturErrorClasses == {"IgiturError", "IgiturAuthenticationError"}

\* ensure_logged_in: the session file must exist, and GaudeamSession.from_file
\* raises IgiturAuthenticationError when the session it loads is not valid.
ensure_logged_in(w, sess) ==
  IF sess = "missing" THEN Raise(w, "No session found. Please login first.")
  ELSE IF sess = "invalid"
  THEN RaiseAs(w, "IgiturAuthenticationError",
               "Loaded session is not valid anymore, Please log in again.")
  ELSE w

\* status
status(w, sess) == ensure_logged_in(w, sess)

\* login: GaudeamSession.with_user_auth, then the session is saved.
login(w, accepted) ==
  IF accepted THEN w
  ELSE RaiseAs(w, "IgiturAuthenticationError",
               "Failed to login to gaudeam, check credentials")

\* download(folder_id, destination) of the command line interface.
cli_download(w, sess, folder_id, destination) ==
  LET w1 == ensure_logged_in(w, sess)
      w2 == NewFolder(w1, folder_id)
  IN IF Raised(w1) THEN w1
     ELSE IF Raised(w2) THEN w2
     ELSE download(w2, w2.ret, destination)

\* download_event_media and download_event_media_days: the event's posts are
\* fetched, which raises RuntimeError when the remote does not answer 200.
download_event_media(w, sess, answered) ==
  LET w1 == ensure_logged_in(w, sess)
  IN IF Raised(w1) THEN w1
     ELSE IF answered THEN [w1 EXCEPT !.ret = null]
     ELSE RaiseAs(w1, "RuntimeError", "Error fetching event properties")

\* upload(folder_id, source): the value the upload returns is dropped.
upload(w, sess, folder_id, source) ==
  LET w1 == ensure_logged_in(w, sess)
      w2 == NewFolder(w1, folder_id)
  IN IF Raised(w1) THEN w1
     ELSE IF Raised(w2) THEN w2
     ELSE IF ~exists(w2.localFs, source)
     THEN Raise(w2, "Source path does not exist.")
     ELSE IF is_file(w2.localFs, source)
     THEN upload_file(w2, w2.ret, source[Len(source)])
     ELSE upload_folder(w2, w2.ret, source)

\* upload_compressed_images(session, folder_id, source)
upload_compressed_images(w, folder_id, source) ==
  IF ~exists(w.localFs, source) \/ ~is_dir(w.localFs, source)
  THEN Raise(w, "Source path does not exist or is not a directory.")
  ELSE
    LET w1 == NewFolder(w, folder_id)
    IN IF Raised(w1) THEN w1
       ELSE upload_folder_resized(
              w1, [skip_file_names |-> <<>>,
                   allowed_extensions |-> allowed_extensions],
              source, w1.ret)

Commands == {"login", "logout", "status", "download", "download-event-media",
             "download-event-media-days", "upload", "upload-images", "help"}

SyncCommands == {"download", "upload", "upload-images"}

\* The try block of main: the command's function runs; help prints the help
\* and calls sys.exit(1).  in is the command's input: folder_id, path, and
\* whether the remote accepts the login or answers the event requests.
main_try(w, sess, command, in) ==
  IF command = "login" THEN login(w, in.accepted)
  ELSE IF command = "logout" THEN w
  ELSE IF command = "status" THEN status(w, sess)
  ELSE IF command = "download" THEN cli_download(w, sess, in.folder_id, in.path)
  ELSE IF command \in {"download-event-media", "download-event-media-days"}
  THEN download_event_media(w, sess, in.accepted)
  ELSE IF command = "upload" THEN upload(w, sess, in.folder_id, in.path)
  ELSE IF command = "upload-images"
  THEN LET w1 == ensure_logged_in(w, sess)
       IN IF Raised(w1) THEN w1
          ELSE upload_compressed_images(w1, in.folder_id, in.path)
  ELSE RaiseAs(w, "SystemExit", "1")

\* The try block of main of src/igitur/cli.py: login, logout, status and
\* download-folder.
old_main_try(w, sess, command, in) ==
  IF command = "login" THEN login(w, in.accepted)
  ELSE IF command = "logout" THEN w
  ELSE IF command = "status" THEN status(w, sess)
  ELSE cli_download(w, sess, in.folder_id, in.path)

OldCommands == {"login", "logout", "status", "download-folder"}

\* The exit status of the process: an IgiturError is caught and answered
\* with sys.exit(1), sys.exit(1) of help and an exception nobody catches end
\* the process with status 1 as well, and the end of main is sys.exit(0).
exit_status(w) == IF Raised(w) THEN 1 ELSE 0

\* What the process writes to standard error: the message of a caught
\* IgiturError, the traceback of an exception nobody catches.
stderr(w) ==
  IF w.err.class \in IgiturErrorClasses THEN w.err.msg
  ELSE IF w.err.class \in {"none", "SystemExit"} THEN ""
  ELSE "Traceback (most recent call last)"

\* The session file after the command.
session_after(sess, command, w) ==
  IF command = "login" /\ ~Raised(w) THEN "valid"
  ELSE IF command = "logout" THEN "missing"
  ELSE sess

(***************************************************************************)
(* Initial states: a remote tree below the folder the caller works on, a    *)
(* local tree below the path L, and an uploader object.                     *)
(***************************************************************************)
RootId == 1

L == << <<"l">> >>

FolderNames == {<<"d">>, <<"e">>}

RemoteFileNames == {<<"a", ".", "j", "p", "g">>,
                    <<"a", ".", "p", "n", "g">>,
                    <<"o", ".", "j", "p", "g">>}

LocalFileNames == {<<"a", ".", "j", "p", "g">>,
                   <<"a", ".", "P", "N", "G">>,
                   <<"o", ".", "j", "p", "g">>,
                   <<"n", ".", "t", "x", "t">>}

\* Owner settings of the folders of the initial tree:
\* [owner_type, owner_id, restrict_to].
OwnerCfgs == {[owner_type |-> "Group", owner_id |-> "7", restrict_to |-> "42"],
              [owner_type |-> "GroupMember", owner_id |-> "7", restrict_to |-> null],
              [owner_type |-> null, owner_id |-> null, restrict_to |-> null],
              [owner_type |-> "User", owner_id |-> "7", restrict_to |-> null]}

FolderNode(id, parent, name, cfg) ==
  [id |-> id, parent |-> parent, type |-> "Folder", name |-> name,
   download_name |-> <<>>, owner_type |-> cfg.owner_type,
   owner_id |-> cfg.owner_id, restrict_to |-> cfg.restrict_to]

FileNode(id, parent, download_name) ==
  [id |-> id, parent |-> parent, type |-> "DriveFile",
   name |-> stem(download_name), download_name |-> download_name,
   owner_type |-> null, owner_id |-> null, restrict_to |-> null]

\* The remote trees with at most k nodes below the root folder.
RECURSIVE RemoteTrees(_, _)
RemoteTrees(k, cfg) ==
  IF k = 0 THEN {{FolderNode(RootId, 0, <<"r">>, cfg)}}
  ELSE
    LET prev == RemoteTrees(k - 1, cfg)
        full == {t \in prev : Cardinality(t) = k}
    IN prev
       \cup {t \cup {FolderNode(RootId + k, p.id, n, cfg)} :
               <<t, p, n>> \in {x \in full \X (UNION full) \X FolderNames :
                                  x[2] \in x[1] /\ x[2].type \in FolderTypes}}
       \cup {t \cup {FileNode(RootId + k, p.id, n)} :
               <<t, p, n>> \in {x \in full \X (UNION full) \X RemoteFileNames :
                                  x[2] \in x[1] /\ x[2].type \in FolderTypes}}

LocalEntry(id, path, kind) ==
  [path |-> path, kind |-> kind, id |-> id, content |-> 0]

\* The local trees in which L is a directory with at most k entries below.
RECURSIVE LocalTrees(_)
LocalTrees(k) ==
  IF k = 0 THEN {{LocalEntry(1, L, "dir")}}
  ELSE
    LET prev == LocalTrees(k - 1)
        full == {t \in prev : Cardinality(t) = k}
    IN prev
       \cup {t \cup {LocalEntry(k + 1, Append(p.path, n), "dir")} :
               <<t, p, n>> \in {x \in full \X (UNION full) \X FolderNames :
                                  /\ x[2] \in x[1] /\ x[2].kind = "dir"
                                  /\ ~exists(x[1], Append(x[2].path, x[3]))}}
       \cup {t \cup {LocalEntry(k + 1, Append(p.path, n), "file")} :
               <<t, p, n>> \in {x \in full \X (UNION full) \X LocalFileNames :
                                  /\ x[2] \in x[1] /\ x[2].kind = "dir"
                                  /\ ~exists(x[1], Append(x[2].path, x[3]))}}

\* A folder with n children whose types and names are mixed in way p: the
\* types of the raw records, folder-like, file-like and neither, and names
\* whose order is not the order of the ids.
EntryTypes == <<"Folder", "Photo", "Gallery", "DriveFile", "Other">>

WideNode(k, p) ==
  [id |-> RootId + k, parent |-> RootId,
   type |-> EntryTypes[((k * p + (k \div 7)) % Len(EntryTypes)) + 1],
   name |-> <<LowerCase[((k * (2 * p + 1)) % 26) + 1],
              LowerCase[((k \div 3) % 26) + 1]>>,
   download_name |-> <<LowerCase[(k % 26) + 1], LowerCase[((k \div 26) % 26) + 1]>>,
   owner_type |-> null, owner_id |-> null, restrict_to |-> null]

WideTree(n, p) ==
  {FolderNode(RootId, 0, <<"r">>, CHOOSE c \in OwnerCfgs : c.owner_type = "Group")}
    \cup {WideNode(k, p) : k \in 1..n}

\* The numbers of children around every page boundary.
ListSizes ==
  {n \in 0..(MaxPages * DIRECTORY_LIST_LIMIT + 5) :
     \E m \in 0..MaxPages :
       /\ n >= m * DIRECTORY_LIST_LIMIT - 2
       /\ n <= m * DIRECTORY_LIST_LIMIT + 5}

\* L may also be missing, or a regular file.
LocalStates == LocalTrees(MaxLocal) \cup {{}, {LocalEntry(1, L, "file")}}

\* The local trees in which one directory without entries is a regular file
\* instead: a regular file with the name of a folder.
FileForFolder ==
  {(t \ {e}) \cup {[e EXCEPT !.kind = "file"]} :
     <<t, e>> \in {x \in LocalTrees(MaxLocal) \X UNION LocalTrees(MaxLocal) :
                     /\ x[2] \in x[1]
                     /\ x[2].kind = "dir"
                     /\ x[2].path # L
                     /\ iterdir(x[1], x[2].path) = <<>>}}

\* The local trees with one more directory, named like a remote file.
DirForFile ==
  {t \cup {LocalEntry(MaxLocal + 1, Append(p.path, n), "dir")} :
     <<t, p, n>> \in {x \in LocalTrees(MaxLocal - 1)
                             \X (UNION LocalTrees(MaxLocal - 1))
                             \X RemoteFileNames :
                        x[2] \in x[1] /\ x[2].kind = "dir"}}

\* The destinations of a download: L, two levels below L, and the path of
\* every local entry.
DestinationPaths ==
  {L, Append(L, <<"d">>), Append(Append(L, <<"d">>), <<"e">>)}
    \cup {e.path : e \in localFs}

\* The uploader objects: no skip fragment, or the fragment "A".
Uploaders == {[skip_file_names |-> sk, allowed_extensions |-> allowed_extensions] :
                sk \in {<<>>, << <<"A">> >>}}

(***************************************************************************)
(* The state machine: every action is one whole call of a public method.    *)
(***************************************************************************)
NoFaults == [upFail |-> 0, upStep |-> "sign", delFail |-> 0, dlFail |-> 0]

UploadSteps == {"sign", "store", "register"}

UploadFaults ==
  {NoFaults} \cup {[upFail |-> k, upStep |-> s, delFail |-> 0, dlFail |-> 0] :
                     k \in 1..MaxFault, s \in UploadSteps}

\* An upload fault, or an image transform or a storage POST that raises.
RaisingSteps == {"transform", "connect"}

ResizeFaults ==
  UploadFaults \cup {[upFail |-> k, upStep |-> s, delFail |-> 0, dlFail |-> 0] :
                       k \in 1..MaxFault, s \in RaisingSteps}

DeleteFaults ==
  {NoFaults} \cup {[upFail |-> 0, upStep |-> "sign", delFail |-> k,
                      dlFail |-> 0] : k \in 1..MaxFault}

\* The remote may answer one file download, the dlFail-th, with a status
\* other than 200.
DownloadFaults ==
  {NoFaults} \cup {[upFail |-> 0, upStep |-> "sign", delFail |-> 0,
                      dlFail |-> k] : k \in 1..MaxFault}

\* The state after construction of the folder object and the uploader:
\* owner settings from cfgs, at most k remote nodes, the local filesystem
\* one of locals, the uploader one of ups, and calls calls to come.
\* get_members before its first statement.
NotCalled == [pc |-> "start", num_records |-> 0, offset |-> 0,
              members |-> <<>>, left |-> 0]

\* No member directory is read.
NoMembers == directory = <<>> /\ paging = NotCalled

InitWith(cfgs, k, locals, ups, calls) ==
  /\ NoMembers
  /\ \E cfg \in cfgs : remote \in RemoteTrees(k, cfg)
  /\ nextId = RootId + Cardinality(remote)
  /\ localFs \in locals
  /\ nextOrd = MaxLocal + 2
  /\ handle = Handle(CHOOSE n \in remote : n.id = RootId)
  /\ uploader \in ups
  /\ session = "valid"
  /\ budget = calls
  /\ hist = <<>>

\* The call's starting point in the current state.
Start(faults) ==
  [remote |-> remote, nextId |-> nextId, localFs |-> localFs,
   nextOrd |-> nextOrd, log |-> <<>>, err |-> NoError, ret |-> null,
   self |-> handle, faults |-> faults, nUp |-> 0, nDel |-> 0, nDl |-> 0,
   tmp |-> {}]

\* The state after the call, and its record in hist.
Finish(op, arg, dry_run, faults, w, newHandle) ==
  /\ Len(hist) < budget
  /\ remote' = w.remote
  /\ nextId' = w.nextId
  /\ localFs' = w.localFs
  /\ nextOrd' = w.nextOrd
  /\ handle' = newHandle
  /\ UNCHANGED <<uploader, session, budget, directory, paging>>
  /\ hist' = Append(hist, [op |-> op, arg |-> arg, dry_run |-> dry_run,
                           faults |-> faults, pre |-> remote,
                           preLocal |-> localFs, preHandle |-> handle,
                           log |-> w.log, ret |-> w.ret, err |-> w.err,
                           tmp |-> w.tmp])

UploadFolder(F) ==
  \E faults \in F :
    LET w == upload_folder(Start(faults), handle, L)
    IN Finish("upload_folder", L, FALSE, faults, w,
              IF Raised(w) THEN handle ELSE w.self)

UploadFolderResized(F) ==
  \E faults \in F :
    LET w == upload_folder_resized(Start(faults), uploader, L, handle)
    IN Finish("upload_folder_resized", L, FALSE, faults, w,
              IF Raised(w) THEN handle ELSE w.self)

\* download to any destination: L, a path below L, or an existing entry.
DownloadTo ==
  \E destination \in DestinationPaths :
    LET w == download(Start(NoFaults), handle, destination)
    IN Finish("download", destination, FALSE, NoFaults, w, handle)

\* upload_file of a regular file that exists locally.
UploadFile(F) ==
  \E faults \in F, e \in {x \in localFs : x.kind = "file"} :
    LET w == upload_file(Start(faults), handle, EntryName(e))
    IN Finish("upload_file", e.path, FALSE, faults, w, handle)

Download ==
  LET w == download(Start(NoFaults), handle, L)
  IN Finish("download", L, FALSE, NoFaults, w, handle)

\* download to L from a remote that may reject a file download.
DownloadFrom(F) ==
  \E faults \in F :
    LET w == download(Start(faults), handle, L)
    IN Finish("download", L, FALSE, faults, w, handle)

CreateSubFolder ==
  \E name \in FolderNames :
    LET w == create_sub_folder(Start(NoFaults), handle, name)
    IN Finish("create_sub_folder", name, FALSE, NoFaults, w, w.self)

DeleteDuplicates(F) ==
  \E dry_run \in BOOLEAN, faults \in F :
    LET w == delete_duplicates(Start(faults), handle.properties, dry_run)
    IN Finish("delete_duplicates", <<>>, dry_run, faults, w, handle)

DeleteEmptySubFolders(F) ==
  \E dry_run \in BOOLEAN, faults \in F :
    LET w == delete_empty_sub_folders(Start(faults), handle.properties, dry_run)
    IN Finish("delete_empty_sub_folders", <<>>, dry_run, faults, w, handle)

DeleteRemoteOrphanFiles(F) ==
  \E dry_run \in BOOLEAN, faults \in F :
    LET w == delete_remote_orphan_files(Start(faults), uploader, L,
                                        handle.properties, dry_run)
    IN Finish("delete_remote_orphan_files", L, dry_run, faults, w, handle)

GetSubFolders ==
  LET call == get_sub_folders_call(remote, handle.folder_id)
      w == [Listed(Start(NoFaults), "get_sub_folders", handle.folder_id, call)
              EXCEPT !.ret = call.results]
  IN Finish("get_sub_folders", <<>>, FALSE, NoFaults, w, handle)

GetFiles ==
  LET call == get_files_call(remote, handle.folder_id)
      w == [Listed(Start(NoFaults), "get_files", handle.folder_id, call)
              EXCEPT !.ret = call.results]
  IN Finish("get_files", <<>>, FALSE, NoFaults, w, handle)

DeleteContent(F) ==
  \E faults \in F :
    LET w == delete_content(Start(faults), handle)
    IN Finish("delete_content", <<>>, FALSE, faults, w, handle)

\* A folder id the remote does not know, and a path that does not exist.
MissingId == 0

MissingPath == << <<"x">> >>

\* The inputs a command reads: a folder id and a path for the commands
\* that synchronise, the remote's answer to the login or to the event
\* requests for the others.
CliInputs(command) ==
  IF command \in SyncCommands \cup {"download-folder"}
  THEN [folder_id : {RootId, MissingId},
        path : {e.path : e \in localFs} \cup {L, MissingPath},
        accepted : {TRUE}]
  ELSE [folder_id : {RootId}, path : {L}, accepted : BOOLEAN]

\* One run of the command line interface.
FinishMain(op, command, in, faults, w) ==
  /\ Len(hist) < budget
  /\ remote' = w.remote
  /\ nextId' = w.nextId
  /\ localFs' = w.localFs
  /\ nextOrd' = w.nextOrd
  /\ session' = session_after(session, command, w)
  /\ UNCHANGED <<handle, uploader, budget, directory, paging>>
  /\ hist' = Append(hist, [op |-> op, arg |-> in, dry_run |-> FALSE,
                           faults |-> faults, pre |-> remote,
                           preLocal |-> localFs, preHandle |-> handle,
                           log |-> w.log, ret |-> w.ret, err |-> w.err,
                           tmp |-> w.tmp, command |-> command,
                           session |-> session,
                           returned |-> command \in SyncCommands /\ ~Raised(w),
                           exit |-> exit_status(w), stderr |-> stderr(w)])

Main(F) ==
  \E command \in Commands :
    \E in \in CliInputs(command),
       faults \in IF command \in {"upload", "upload-images"} THEN F
                  ELSE {NoFaults} :
    FinishMain("main", command, in, faults,
               main_try(Start(faults), session, command, in))

OldMain ==
  \E command \in OldCommands :
    \E in \in CliInputs(command) :
    FinishMain("old_main", command, in, NoFaults,
               old_main_try(Start(NoFaults), session, command, in))

GroupCfg == {c \in OwnerCfgs : c.owner_type = "Group"}

(***************************************************************************)
(* Specifications.  Each runs the calls one group of properties is about,   *)
(* from every initial state within its bounds.                              *)
(***************************************************************************)
PlainUploader ==
  [skip_file_names |-> <<>>, allowed_extensions |-> allowed_extensions]

EmptyL == {LocalEntry(1, L, "dir")}

\* Upload-sync and the resized upload, with orphan pruning, two calls.
InitUpload ==
  InitWith(GroupCfg, MaxRemoteSync, LocalStates, Uploaders, MaxOps)

NextUpload ==
  \/ UploadFolder({NoFaults})
  \/ UploadFolderResized({NoFaults})
  \/ DeleteRemoteOrphanFiles({NoFaults})

SpecUpload == InitUpload /\ [][NextUpload]_vars

\* Download-sync, two calls.
InitDownload ==
  InitWith(GroupCfg, MaxRemote, LocalStates, {PlainUploader}, MaxOps)

NextDownload == Download

SpecDownload == InitDownload /\ [][NextDownload]_vars

\* The cleanup passes, one call, deletes may fail.
InitCleanup == InitWith(GroupCfg, MaxRemoteSync, LocalStates, Uploaders, 1)

NextCleanup ==
  \/ DeleteDuplicates(DeleteFaults)
  \/ DeleteEmptySubFolders(DeleteFaults)
  \/ DeleteRemoteOrphanFiles(DeleteFaults)
  \/ DeleteContent(DeleteFaults)

SpecCleanup == InitCleanup /\ [][NextCleanup]_vars

\* Duplicate elimination on larger remote trees, one call.
InitDedup == InitWith(GroupCfg, MaxRemoteDedup, {EmptyL}, {PlainUploader}, 1)

NextDedup == DeleteDuplicates(DeleteFaults)

SpecDedup == InitDedup /\ [][NextDedup]_vars

\* Remote-orphan pruning, one call.
InitOrphan == InitWith(GroupCfg, MaxRemote, LocalStates, Uploaders, 1)

NextOrphan == DeleteRemoteOrphanFiles({NoFaults})

SpecOrphan == InitOrphan /\ [][NextOrphan]_vars

\* Sub-folder creation under every owner setting, two calls.
InitCreate == InitWith(OwnerCfgs, MaxRemote, {{}}, {PlainUploader}, MaxOps)

NextCreate == CreateSubFolder

SpecCreate == InitCreate /\ [][NextCreate]_vars

\* Empty-folder pruning on larger remote trees, one call.
InitPrune == InitWith(GroupCfg, MaxRemoteDedup, {EmptyL}, {PlainUploader}, 1)

NextPrune == DeleteEmptySubFolders({NoFaults})

SpecPrune == InitPrune /\ [][NextPrune]_vars

\* The two listings of a folder with many children, one call.
InitListing ==
  /\ NoMembers
  /\ \E n \in ListSizes, p \in 1..MaxMix : remote = WideTree(n, p)
  /\ nextId = RootId + Cardinality(remote)
  /\ localFs = EmptyL
  /\ nextOrd = MaxLocal + 2
  /\ handle = Handle(CHOOSE n \in remote : n.id = RootId)
  /\ uploader = PlainUploader
  /\ session = "valid"
  /\ budget = 1
  /\ hist = <<>>

NextListing == GetSubFolders \/ GetFiles

SpecListing == InitListing /\ [][NextListing]_vars

\* The command line interface, one run, uploads may fail.
InitCli ==
  /\ NoMembers
  /\ \E cfg \in GroupCfg : remote \in RemoteTrees(1, cfg)
  /\ nextId = RootId + Cardinality(remote)
  /\ localFs \in LocalStates
  /\ nextOrd = MaxLocal + 2
  /\ handle = Handle(CHOOSE n \in remote : n.id = RootId)
  /\ uploader = PlainUploader
  /\ session \in {"missing", "invalid", "valid"}
  /\ budget = 1
  /\ hist = <<>>

NextCli == Main(UploadFaults) \/ OldMain

SpecCli == InitCli /\ [][NextCli]_vars

\* Download-sync to any destination, one call.
InitDestination ==
  InitWith(GroupCfg, MaxRemoteSync, LocalStates \cup FileForFolder,
           {PlainUploader}, 1)

NextDestination == DownloadTo

SpecDestination == InitDestination /\ [][NextDestination]_vars

\* Download-sync into local trees that may hold a directory named like a
\* remote file, one call.
InitShape ==
  InitWith(GroupCfg, MaxRemote, LocalStates \cup DirForFile, {PlainUploader}, 1)

NextShape == Download

SpecShape == InitShape /\ [][NextShape]_vars

\* Download-sync from a remote that may reject a file download, two calls.
InitReject ==
  InitWith(GroupCfg, MaxRemote, {{}, EmptyL}, {PlainUploader}, MaxOps)

NextReject == DownloadFrom(DownloadFaults)

SpecReject == InitReject /\ [][NextReject]_vars

(***************************************************************************)
(* GaudeamMembers.get_members, statement by statement: the count request,   *)
(* the first index request, and the turns of the while loop.  Between two   *)
(* requests a member may leave the directory.                               *)
(***************************************************************************)
MEMBERS_LIMIT == 100

StatusCodes == {200, 500}

\* The answer of /api/v1/members/index: limit members from offset on.
MembersIndex(offset, limit) == PageOf(directory, offset, limit)

DriveUntouched ==
  UNCHANGED <<remote, nextId, localFs, nextOrd, handle, uploader, session,
              budget, hist>>

\* The count request and the test of its status.
MembersCount ==
  /\ paging.pc = "start"
  /\ \E status_code \in StatusCodes :
       paging' = IF status_code # 200 THEN [paging EXCEPT !.pc = "raised"]
                 ELSE [paging EXCEPT !.pc = "counted",
                                     !.num_records = Len(directory)]
  /\ UNCHANGED directory
  /\ DriveUntouched

\* The first index request and the test of its status.
MembersFirstPage ==
  /\ paging.pc = "counted"
  /\ \E status_code \in StatusCodes :
       paging' = IF status_code # 200 THEN [paging EXCEPT !.pc = "raised"]
                 ELSE [paging EXCEPT !.pc = "loop",
                                     !.members = MembersIndex(0, MEMBERS_LIMIT)]
  /\ UNCHANGED directory
  /\ DriveUntouched

\* The offset of the next request.  No directory has more than MaxMembers
\* members, so every offset from MaxMembers on reads the same empty page: of
\* these offsets the model keeps two, which the turns of the loop alternate
\* between.
NextOffset(offset) ==
  IF offset >= MaxMembers + MEMBERS_LIMIT THEN offset - MEMBERS_LIMIT
  ELSE offset + MEMBERS_LIMIT

\* The test of the while loop is false.
MembersLoopEnds == Len(paging.members) >= paging.num_records

\* One turn of the while loop: the next page is requested and appended.
MembersNextPage ==
  /\ paging.pc = "loop"
  /\ ~MembersLoopEnds
  /\ paging' = [paging EXCEPT
                  !.offset = NextOffset(@),
                  !.members = @ \o MembersIndex(NextOffset(paging.offset),
                                                 MEMBERS_LIMIT)]
  /\ UNCHANGED directory
  /\ DriveUntouched

\* The loop is left and the members are returned.
MembersReturn ==
  /\ paging.pc = "loop"
  /\ MembersLoopEnds
  /\ paging' = [paging EXCEPT !.pc = "returned"]
  /\ UNCHANGED directory
  /\ DriveUntouched

\* The directory without its p-th member.
Without(dir, p) == SubSeq(dir, 1, p - 1) \o SubSeq(dir, p + 1, Len(dir))

\* A member leaves the directory while the call is between two requests.
MemberLeaves ==
  /\ paging.pc \in {"counted", "loop"}
  /\ paging.left < MaxShrink
  /\ \E p \in DOMAIN directory : directory' = Without(directory, p)
  /\ paging' = [paging EXCEPT !.left = @ + 1]
  /\ DriveUntouched

get_members ==
  MembersCount \/ MembersFirstPage \/ MembersNextPage \/ MembersReturn

\* Reading a member directory of any size.
InitMembers ==
  /\ remote = {}
  /\ nextId = RootId
  /\ localFs = {}
  /\ nextOrd = 0
  /\ handle = null
  /\ uploader = PlainUploader
  /\ session = "valid"
  /\ budget = 0
  /\ hist = <<>>
  /\ \E n \in 0..MaxMembers : directory = [m \in 1..n |-> m]
  /\ paging = NotCalled

NextMembers == get_members \/ MemberLeaves

SpecMembers == InitMembers /\ [][NextMembers]_vars

\* The interpreter runs the call on and the remote answers every request.
SpecMembersFair == SpecMembers /\ WF_vars(get_members)

\* The uploads with a remote that may fail one upload step, one call.
InitFailFast ==
  InitWith(GroupCfg, 1, LocalTrees(MaxLocalDeep), Uploaders, 1)

NextFailFast ==
  \/ UploadFolder(UploadFaults)
  \/ UploadFolderResized(UploadFaults)
  \/ UploadFile(UploadFaults)

SpecFailFast == InitFailFast /\ [][NextFailFast]_vars

\* The resized upload with a remote that may fail one upload step, an image
\* that cannot be read, or a storage endpoint that cannot be reached.
InitTemporary ==
  InitWith(GroupCfg, 1, LocalTrees(MaxLocalDeep), Uploaders, 1)

NextTemporary == UploadFolderResized(ResizeFaults)

SpecTemporary == InitTemporary /\ [][NextTemporary]_vars

(***************************************************************************)
(* Vocabulary of the properties.                                            *)
(***************************************************************************)
\* The remote store and the local filesystem after call i.
PostRemote(i) == IF i < Len(hist) THEN hist[i + 1].pre ELSE remote
PostLocal(i) == IF i < Len(hist) THEN hist[i + 1].preLocal ELSE localFs
PostHandle(i) == IF i < Len(hist) THEN hist[i + 1].preHandle ELSE handle

\* The requests of kind ops that call i issued.
Requests(i, ops) == {k \in DOMAIN hist[i].log : hist[i].log[k].op \in ops}

Completed(i) == hist[i].err = NoError

DeleteOps == {"delete_folder", "delete_file"}

(***************************************************************************)
(* Properties.                                                              *)
(***************************************************************************)
UploadRequests == {"upload_file", "sign", "store", "register", "create_folder"}

\* C1: Upload-sync is idempotent.  When upload_folder(L, R) has returned
\* True and the next call is upload_folder(L, R) again, with nothing changed
\* in between, the second call issues no file upload and no sub-folder
\* creation.
C1_UploadIdempotent ==
  \A i \in DOMAIN hist :
    (/\ i > 1
     /\ hist[i].op = "upload_folder"
     /\ hist[i - 1].op = "upload_folder"
     /\ Completed(i - 1)
     /\ hist[i - 1].ret = TRUE)
    => Requests(i, UploadRequests) = {}

\* A first upload_folder that uploaded a file and created a sub-folder and
\* returned True, followed by a second upload_folder.
C1_Witness ==
  /\ Len(hist) = 2
  /\ hist[1].op = "upload_folder" /\ hist[2].op = "upload_folder"
  /\ Completed(1) /\ hist[1].ret = TRUE
  /\ Requests(1, {"register"}) # {}
  /\ Requests(1, {"create_folder"}) # {}
  /\ Completed(2) /\ hist[2].ret = TRUE

\* C2: Download-sync is idempotent.  No call of download changes or removes
\* a local file that existed before it, whatever the file's content; and
\* when a download has completed, a second download on the unchanged remote
\* folder issues no file download request and leaves the local filesystem
\* as it is.
C2_DownloadIdempotent ==
  \A i \in DOMAIN hist :
    hist[i].op = "download" =>
      /\ \A e \in hist[i].preLocal : e.kind = "file" => e \in PostLocal(i)
      /\ (i > 1 /\ hist[i - 1].op = "download" /\ Completed(i - 1))
         => /\ Requests(i, {"download"}) = {}
            /\ PostLocal(i) = hist[i].preLocal

\* A first download that fetched a file and skipped another one whose
\* target already existed with local content, followed by a second download.
C2_Witness ==
  /\ Len(hist) = 2
  /\ hist[1].op = "download" /\ hist[2].op = "download"
  /\ Completed(1) /\ Completed(2)
  /\ Requests(1, {"download"}) # {}
  /\ \E n \in hist[1].pre, e \in hist[1].preLocal :
       /\ n.type \in FileTypes /\ n.parent = RootId
       /\ e.kind = "file" /\ e.path = Append(L, n.download_name)
  /\ \E e \in localFs : e.kind = "file" /\ e.content > 0 /\ Len(e.path) > 2

CleanupOps ==
  {"delete_duplicates", "delete_empty_sub_folders", "delete_remote_orphan_files"}

\* C3: with dry_run=True a cleanup pass (delete_duplicates,
\* delete_empty_sub_folders, delete_remote_orphan_files) issues no delete
\* request at any depth, and the remote tree after the pass equals the
\* remote tree before it.
C3_DryRunDeletesNothing ==
  \A i \in DOMAIN hist :
    (hist[i].op \in CleanupOps /\ hist[i].dry_run)
    => /\ Requests(i, DeleteOps) = {}
       /\ PostRemote(i) = hist[i].pre

\* C4: the resized upload never uploads an artifact whose derived download
\* name already exists in the target remote folder at the moment of the
\* upload, a file uploaded earlier in the same pass included.
C4_NoUploadOfExistingName ==
  \A i \in DOMAIN hist :
    hist[i].op = "upload_folder_resized"
    => \A k \in Requests(i, {"upload_file"}) : ~hist[i].log[k].dup

SupportedOwnerTypes == {"Group", "GroupMember", null}

\* C5: create_sub_folder copies ownership from the parent into the create
\* request.  Parent owner_type Group gives owner_type Group and the
\* parent's restrict_to.id; GroupMember gives GroupMember and null; null
\* gives null and null; in all three cases one request is sent, and its
\* owner_id and parent_id are the parent's owner_id and folder ID.
C5_OwnershipInherited ==
  \A i \in DOMAIN hist :
    hist[i].op = "create_sub_folder" =>
      LET parent == hist[i].preHandle
          reqs == Requests(i, {"create_folder"})
      IN /\ parent.properties.owner_type \in SupportedOwnerTypes
            => Cardinality(reqs) = 1
         /\ \A k \in reqs :
              LET inode == hist[i].log[k].data
              IN /\ inode.owner_id = parent.properties.owner_id
                 /\ inode.parent_id = parent.folder_id
                 /\ inode.name = hist[i].arg
                 /\ parent.properties.owner_type = "Group"
                    => /\ inode.owner_type = "Group"
                       /\ inode.restrict_to_id = parent.properties.restrict_to
                 /\ parent.properties.owner_type = "GroupMember"
                    => /\ inode.owner_type = "GroupMember"
                       /\ inode.restrict_to_id = null
                 /\ parent.properties.owner_type = null
                    => /\ inode.owner_type = null
                       /\ inode.restrict_to_id = null

\* A sub-folder created under a Group-owned parent with restriction group 42
\* and stored with that restriction.
C5_Witness ==
  /\ Len(hist) >= 1
  /\ hist[1].op = "create_sub_folder"
  /\ hist[1].preHandle.properties.owner_type = "Group"
  /\ \E k \in Requests(1, {"create_folder"}) :
       hist[1].log[k].data.restrict_to_id = "42"
  /\ \E n \in PostRemote(1) \ hist[1].pre :
       n.parent = RootId /\ n.owner_type = "Group" /\ n.restrict_to = "42"

UnsupportedOwner(i) ==
  hist[i].preHandle.properties.owner_type \notin SupportedOwnerTypes

\* What create_sub_folder leaves alone when it refuses: no request of any
\* kind, the remote tree and the folder object's cached properties as before.
RefusedWithoutEffect(i) ==
  /\ hist[i].log = <<>>
  /\ PostRemote(i) = hist[i].pre
  /\ PostHandle(i) = hist[i].preHandle

\* C6 as stated: under a parent whose owner_type is not Group, GroupMember or
\* null, create_sub_folder fails with ConfigurationError ("cannot create
\* folder: unsupported owner type") and sends no create request, leaving the
\* remote tree and the parent's cached properties unchanged.
C6_ConfigurationError ==
  \A i \in DOMAIN hist :
    (hist[i].op = "create_sub_folder" /\ UnsupportedOwner(i))
    => /\ hist[i].err = [class |-> "ConfigurationError",
                         msg |-> "cannot create folder: unsupported owner type"]
       /\ RefusedWithoutEffect(i)

\* C6 amended: under such a parent create_sub_folder fails with IgiturError
\* ("cannot create file as parent is not owned by GroupMember or Group") and
\* sends no request, leaving the remote tree and the parent's cached
\* properties unchanged.
C6_IgiturError ==
  \A i \in DOMAIN hist :
    (hist[i].op = "create_sub_folder" /\ UnsupportedOwner(i))
    => /\ hist[i].err =
            [class |-> "IgiturError",
             msg |-> "cannot create file as parent is not owned by GroupMember or Group"]
       /\ RefusedWithoutEffect(i)

\* create_sub_folder called on a folder owned by a User, on a remote tree
\* that has sub-folders.
C6_Witness ==
  /\ Len(hist) >= 1
  /\ hist[1].op = "create_sub_folder"
  /\ hist[1].preHandle.properties.owner_type = "User"
  /\ hist[1].err # NoError
  /\ Cardinality(hist[1].pre) > 1

SubFoldersOf(rem, fid) == {n \in Children(rem, fid) : n.type \in FolderTypes}
FilesOf(rem, fid) == {n \in Children(rem, fid) : n.type \in FileTypes}
NamesOf(S) == {n.name : n \in S}
IdsOf(S) == {n.id : n \in S}

\* Call i is a duplicate elimination that deletes, and every delete succeeds.
Deduplicated(i) ==
  /\ hist[i].op = "delete_duplicates"
  /\ ~hist[i].dry_run
  /\ hist[i].faults = NoFaults

\* The folders that survive call i.
SurvivingFolders(i) == {n \in PostRemote(i) : n.type \in FolderTypes}

\* C7: after delete_duplicates(R) with dry_run=False and every delete
\* succeeding, in R and in every surviving descendant folder exactly one
\* sub-folder survives per distinct name, and the folder deletions at each
\* level number the sub-folders minus the distinct names.
C7_FolderDuplicatesEliminated ==
  \A i \in DOMAIN hist :
    Deduplicated(i) =>
      /\ Completed(i)
      /\ \A F \in SurvivingFolders(i) :
           LET before == SubFoldersOf(hist[i].pre, F.id)
               after == SubFoldersOf(PostRemote(i), F.id)
               deletions == {k \in Requests(i, {"delete_folder"}) :
                               hist[i].log[k].target \in IdsOf(before)}
           IN /\ after \subseteq before
              /\ \A nm \in NamesOf(before) :
                   Cardinality({n \in after : n.name = nm}) = 1
              /\ Cardinality(deletions)
                   = Cardinality(before) - Cardinality(NamesOf(before))

\* A pass that removed a duplicate sub-folder of R and a duplicate
\* sub-folder of a surviving sub-folder of R.
C7_Witness ==
  /\ Len(hist) = 1
  /\ Deduplicated(1)
  /\ \E F \in SurvivingFolders(1) :
       /\ F.id # RootId
       /\ SubFoldersOf(remote, F.id) # SubFoldersOf(hist[1].pre, F.id)
  /\ SubFoldersOf(remote, RootId) # SubFoldersOf(hist[1].pre, RootId)

\* The first elements of the runs of equal display names in a listing.
FirstOfRuns(listing) ==
  {listing[k] : k \in {j \in DOMAIN listing :
                         j = 1 \/ listing[j - 1].name # listing[j].name}}

\* C8: duplicate elimination of files compares the display name.  After
\* delete_duplicates with dry_run=False and deletes succeeding, in each
\* surviving folder exactly one file survives per distinct display name:
\* the first of its run in the name-sorted listing.
C8_FileDuplicatesByDisplayName ==
  \A i \in DOMAIN hist :
    Deduplicated(i) =>
      \A F \in SurvivingFolders(i) :
        LET before == FilesOf(hist[i].pre, F.id)
            after == FilesOf(PostRemote(i), F.id)
        IN /\ after = FirstOfRuns(sorted_by_name(get_files(hist[i].pre, F.id)))
           /\ \A nm \in NamesOf(before) :
                Cardinality({n \in after : n.name = nm}) = 1

\* A pass that met two sibling files with one display name and different
\* download names and kept the one listed first.
C8_Witness ==
  /\ Len(hist) = 1
  /\ Deduplicated(1)
  /\ \E f \in hist[1].pre, g \in hist[1].pre :
       /\ f.type \in FileTypes /\ g.type \in FileTypes
       /\ f.parent = g.parent /\ f.name = g.name /\ f.id < g.id
       /\ f.download_name # g.download_name
       /\ f \in remote /\ g \notin remote
       /\ \E p \in remote : p.id = f.parent

\* C9: after delete_duplicates with dry_run=False and deletes succeeding, no
\* two sibling files of the processed subtree share a download name, and a
\* file is deleted only if a surviving sibling has the same download name.
C9_DuplicatesByDownloadName ==
  \A i \in DOMAIN hist :
    Deduplicated(i) =>
      \A F \in SurvivingFolders(i) :
        LET before == FilesOf(hist[i].pre, F.id)
            after == FilesOf(PostRemote(i), F.id)
        IN /\ \A f \in after, g \in after :
                f.download_name = g.download_name => f = g
           /\ \A f \in before \ after :
                \E g \in after : g.download_name = f.download_name

\* The local directory that corresponds to the remote folder fid: L for R,
\* and below R the path of the folder names.
RECURSIVE LocalPathOf(_, _)
LocalPathOf(rem, fid) ==
  IF fid = RootId THEN L
  ELSE LET f == CHOOSE n \in rem : n.id = fid
       IN Append(LocalPathOf(rem, f.parent), f.name)

\* A source file the resized pipeline takes: extension .jpg, .jpeg or .png
\* in any case, and no skip fragment in its name in any case.
TakenSource(name) ==
  /\ lower(suffix(name)) \in {<<".", "j", "p", "g">>,
                              <<".", "j", "p", "e", "g">>,
                              <<".", "p", "n", "g">>}
  /\ \A k \in DOMAIN uploader.skip_file_names :
       ~Contains(lower(name), lower(uploader.skip_file_names[k]))

\* The remote node n of rem has its counterpart in the local filesystem fs.
MatchedLocally(rem, fs, n) ==
  LET dir == LocalPathOf(rem, n.parent)
  IN /\ is_dir(fs, dir)
     /\ IF n.type \in FolderTypes
        THEN is_dir(fs, Append(dir, n.name))
        ELSE \E e \in fs :
               /\ e.kind = "file"
               /\ Len(e.path) = Len(dir) + 1
               /\ SubSeq(e.path, 1, Len(dir)) = dir
               /\ TakenSource(EntryName(e))
               /\ n.download_name = stem(EntryName(e)) \o <<".", "j", "p", "g">>

\* Call i is a remote-orphan pruning that deletes; no delete fails and L is
\* a directory.
Pruned(i) ==
  /\ hist[i].op = "delete_remote_orphan_files"
  /\ ~hist[i].dry_run
  /\ hist[i].faults = NoFaults
  /\ Completed(i)

\* C10: remote-orphan pruning with dry_run=False deletes exactly the
\* unmatched remote items.  A remote file is deleted if and only if its
\* download name is not <stem>.jpg of a local file of the corresponding
\* local directory that has an allowed extension and no skip fragment; a
\* remote sub-folder is deleted if and only if the corresponding local
\* directory has no sub-directory of its name.
C10_OrphansExactlyDeleted ==
  \A i \in DOMAIN hist :
    Pruned(i) =>
      /\ PostRemote(i) \subseteq hist[i].pre
      /\ \A n \in hist[i].pre :
           n.id # RootId =>
             (n \notin PostRemote(i)
                <=> ~MatchedLocally(hist[i].pre, hist[i].preLocal, n))

\* A pruning that kept the remote a.jpg for the local a.PNG, deleted the
\* remote o.jpg, and kept a sub-folder that has a local directory.
C10_Witness ==
  /\ Len(hist) = 1
  /\ Pruned(1)
  /\ \E e \in localFs : e.kind = "file" /\ e.path = Append(L, <<"a", ".", "P", "N", "G">>)
  /\ ~(\E e \in localFs : e.path = Append(L, <<"a", ".", "j", "p", "g">>))
  /\ \E n \in remote :
       n.parent = RootId /\ n.download_name = <<"a", ".", "j", "p", "g">>
  /\ \E n \in hist[1].pre \ remote :
       n.parent = RootId /\ n.download_name = <<"o", ".", "j", "p", "g">>
  /\ \E n \in remote : n.parent = RootId /\ n.type \in FolderTypes

\* The upload_file calls of call i, in the order they were made.
UploadCalls(i) == Requests(i, {"upload_file"})

\* Call i met the upload failure the remote had in store for it.
UploadFailed(i) ==
  /\ hist[i].faults.upFail > 0
  /\ Cardinality(UploadCalls(i)) >= hist[i].faults.upFail

\* After the failing upload_file call nothing but the steps of that call was
\* requested: no upload, no image transform, no sub-folder creation, no
\* listing.
NothingAfterFailure(i) ==
  /\ Cardinality(UploadCalls(i)) = hist[i].faults.upFail
  /\ \A k \in DOMAIN hist[i].log :
       (\A u \in UploadCalls(i) : u < k)
       => hist[i].log[k].op \in UploadSteps

\* C11: upload-sync is fail-fast.  As soon as one upload_file fails inside
\* upload_folder or upload_folder_resized, no further upload, sub-folder
\* creation or descent happens, and the call returns False to its caller
\* whatever the depth of the failing upload.
C11_UploadFailFast ==
  \A i \in DOMAIN hist :
    (hist[i].op \in {"upload_folder", "upload_folder_resized"} /\ UploadFailed(i))
    => /\ NothingAfterFailure(i)
       /\ Completed(i)
       /\ hist[i].ret = FALSE

DeletingPasses == CleanupOps \cup {"delete_content"}

\* The ids call i asked the remote to delete.
DeleteTargets(log) ==
  {log[k].target : k \in {j \in DOMAIN log : log[j].op \in DeleteOps}}

\* Call i met the delete failure the remote had in store for it.
DeleteFailed(i) ==
  /\ hist[i].faults.delFail > 0
  /\ Cardinality(Requests(i, DeleteOps)) >= hist[i].faults.delFail

\* The request of call i that the remote answered with a failure.
FailedDelete(i) ==
  LET reqs == Requests(i, DeleteOps)
  IN hist[i].log[CHOOSE k \in reqs :
                   Cardinality({j \in reqs : j <= k}) = hist[i].faults.delFail]

\* The pass of call i run from the same state on a remote that answers
\* every delete with success.
Unfailing(i) ==
  LET w == [remote |-> hist[i].pre, nextId |-> 0, localFs |-> hist[i].preLocal,
            nextOrd |-> 0, log |-> <<>>, err |-> NoError, ret |-> null,
            self |-> hist[i].preHandle, faults |-> NoFaults, nUp |-> 0,
            nDel |-> 0, nDl |-> 0, tmp |-> {}]
      R == hist[i].preHandle
  IN IF hist[i].op = "delete_duplicates"
     THEN delete_duplicates(w, R.properties, hist[i].dry_run)
     ELSE IF hist[i].op = "delete_empty_sub_folders"
     THEN delete_empty_sub_folders(w, R.properties, hist[i].dry_run)
     ELSE IF hist[i].op = "delete_remote_orphan_files"
     THEN delete_remote_orphan_files(w, uploader, hist[i].arg, R.properties,
                                     hist[i].dry_run)
     ELSE delete_content(w, R)

\* C12: a failed delete of a folder or of a file during a cleanup pass
\* (delete_duplicates, delete_remote_orphan_files, delete_empty_sub_folders,
\* delete_content) is not fatal.  No error leaves the pass, and everything
\* the pass deletes when no delete fails, it still asks to delete, unless
\* it lies below the item whose delete failed.
C12_FailedDeleteNotFatal ==
  \A i \in DOMAIN hist :
    (hist[i].op \in DeletingPasses /\ DeleteFailed(i))
    => /\ Completed(i)
       /\ \A t \in DeleteTargets(Unfailing(i).log) :
            \/ t \in DeleteTargets(hist[i].log)
            \/ t \in IdsOf(Subtree(hist[i].pre, FailedDelete(i).target))

\* The subtree of folder n in rem holds a file.
HoldsFile(rem, n) == \E f \in Subtree(rem, n.id) : f.type \in FileTypes

\* Call i is an empty-folder pruning that deletes, and every delete succeeds.
PrunedEmpty(i) ==
  /\ hist[i].op = "delete_empty_sub_folders"
  /\ ~hist[i].dry_run
  /\ hist[i].faults = NoFaults

\* C13: empty-folder pruning is depth-first and complete.  After
\* delete_empty_sub_folders(R) with dry_run=False and deletes succeeding,
\* every folder of the subtree, R included, whose subtree held no file is
\* gone, each deleted by a request of its own after the folders below it,
\* and every file and every folder above a file is still there.
C13_EmptyFoldersPruned ==
  \A i \in DOMAIN hist :
    PrunedEmpty(i) =>
      /\ Completed(i)
      /\ PostRemote(i) =
           {n \in hist[i].pre :
              n.type \in FileTypes \/ HoldsFile(hist[i].pre, n)}
      /\ \A n \in hist[i].pre \ PostRemote(i) :
           \E k \in Requests(i, {"delete_folder"}) :
             /\ hist[i].log[k].target = n.id
             /\ \A c \in Children(hist[i].pre, n.id) :
                  \E j \in Requests(i, {"delete_folder"}) :
                    j < k /\ hist[i].log[j].target = c.id

\* A pruning that removed a chain of two nested empty folders and kept a
\* folder that holds a file.
C13_Witness ==
  /\ Len(hist) = 1
  /\ PrunedEmpty(1)
  /\ \E a \in hist[1].pre, b \in hist[1].pre :
       /\ a.parent = RootId /\ b.parent = a.id
       /\ a.type \in FolderTypes /\ b.type \in FolderTypes
       /\ a \notin remote /\ b \notin remote
  /\ \E d \in remote, f \in remote :
       d.parent = RootId /\ f.parent = d.id /\ f.type \in FileTypes

ListingOps == {"get_sub_folders", "get_files"}

\* The offsets of the listing requests of call i, in the order issued.
OffsetsAsked(i) == [k \in DOMAIN hist[i].log |-> hist[i].log[k].data]

\* C14: listing a folder with n children, with get_sub_folders and with
\* get_files alike, issues requests at the offsets 0, 80, 160, ... and stops
\* at the first page that is shorter than 80 or empty: floor(n/80)+1
\* requests, none after a short page.
C14_PaginationRequests ==
  \A i \in DOMAIN hist :
    hist[i].op \in ListingOps =>
      LET n == Cardinality(Children(hist[i].pre, hist[i].preHandle.folder_id))
      IN /\ \A k \in DOMAIN hist[i].log :
              /\ hist[i].log[k].op = hist[i].op
              /\ hist[i].log[k].target = hist[i].preHandle.folder_id
         /\ OffsetsAsked(i) =
              [k \in 1..((n \div 80) + 1) |-> (k - 1) * 80]
         /\ \A k \in DOMAIN hist[i].log :
              k < Len(hist[i].log) => n - OffsetsAsked(i)[k] >= 80

\* get_files on a folder with 85 children: two requests, at 0 and at 80.
C14_Witness ==
  /\ Len(hist) = 1
  /\ hist[1].op = "get_files"
  /\ Cardinality(Children(hist[1].pre, RootId)) = 85
  /\ OffsetsAsked(1) = <<0, 80>>

\* C15: on a remote folder that does not change, get_sub_folders returns
\* exactly the children of type Folder or Gallery and get_files exactly the
\* children of type Photo or DriveFile, each child once and in name order
\* across all pages; a child of another type is in neither result.
C15_ListingComplete ==
  \A i \in DOMAIN hist :
    hist[i].op \in ListingOps =>
      LET types == IF hist[i].op = "get_sub_folders"
                   THEN {"Folder", "Gallery"} ELSE {"Photo", "DriveFile"}
          wanted == {c \in Children(hist[i].pre, hist[i].preHandle.folder_id) :
                       c.type \in types}
          got == hist[i].ret
      IN /\ Range(got) = wanted
         /\ Len(got) = Cardinality(wanted)
         /\ \A a \in DOMAIN got, b \in DOMAIN got :
              a < b => ~StrLess(got[b].name, got[a].name)

\* get_sub_folders on a folder whose children fill more than two pages, with
\* folders, files and other entries on the first page, and a folder taken
\* from the third page.
C15_Witness ==
  /\ Len(hist) = 1
  /\ hist[1].op = "get_sub_folders"
  /\ Len(hist[1].log) = 3
  /\ \E k \in 1..80 : hist[1].ret[k].type = "Gallery"
  /\ \E c \in hist[1].pre : c.type = "Other"
  /\ \E c \in hist[1].pre : c.type = "Photo"
  /\ \E c \in Range(hist[1].ret) :
       c \in Range(ServerPage(hist[1].pre, RootId, 160, 80))

\* The three requests of the signed upload, in the order of the protocol.
Protocol == <<"sign", "store", "register">>

StepNumber(step) == CHOOSE k \in DOMAIN Protocol : Protocol[k] = step

\* The requests call i issued for the upload_file call logged at u: the
\* steps that follow it up to the next event of another kind.
StepsOf(i, u) ==
  LET log == hist[i].log
      stop == {k \in DOMAIN log : k > u /\ log[k].op \notin UploadSteps}
      last == IF stop = {} THEN Len(log)
              ELSE (CHOOSE k \in stop : \A j \in stop : k <= j) - 1
  IN [k \in 1..(last - u) |-> log[u + k].op]

\* The remote answers a step of the upload_file call logged at u with a
\* failure.
FailingUpload(i, u) ==
  hist[i].faults.upFail = Cardinality({v \in UploadCalls(i) : v <= u})

\* C16: upload_file follows the signed-upload protocol in order and without
\* retry.  The storage POST is issued only after the sign request succeeded,
\* the registration only after the storage POST succeeded, each at most
\* once; a step that fails is the last request of the call and the call
\* returns False; True is returned only after the registration succeeded,
\* and then the folder has gained the one file registered.
C16_SignedUploadProtocol ==
  \A i \in DOMAIN hist :
    /\ \A u \in UploadCalls(i) :
         /\ StepsOf(i, u) =
              SubSeq(Protocol, 1,
                     IF FailingUpload(i, u)
                     THEN StepNumber(hist[i].faults.upStep) ELSE Len(Protocol))
    /\ hist[i].op = "upload_file" =>
         /\ Completed(i)
         /\ Cardinality(UploadCalls(i)) = 1
         /\ hist[i].ret = ~(\E u \in UploadCalls(i) : FailingUpload(i, u))
         /\ IF hist[i].ret
            THEN /\ hist[i].pre \subseteq PostRemote(i)
                 /\ \E f \in PostRemote(i) :
                      /\ PostRemote(i) \ hist[i].pre = {f}
                      /\ f.parent = hist[i].preHandle.folder_id
                      /\ f.name = stem(hist[i].arg[Len(hist[i].arg)])
            ELSE PostRemote(i) = hist[i].pre

\* An upload_file call whose storage POST failed: sign and store were
\* requested, nothing was registered, the call returned False.
C16_Witness ==
  /\ Len(hist) = 1
  /\ hist[1].op = "upload_file"
  /\ hist[1].faults.upFail = 1 /\ hist[1].faults.upStep = "store"
  /\ [k \in DOMAIN hist[1].log |-> hist[1].log[k].op]
       = <<"upload_file", "sign", "store">>
  /\ hist[1].ret = FALSE
  /\ remote = hist[1].pre

UploadCommands == {"upload", "upload-images"}

\* C17: the commands upload and upload-images exit with status 0 only when
\* the underlying upload_file, upload_folder or upload_folder_resized call
\* succeeded: when it reports failure, the process does not exit 0.
C17_UploadExitStatus ==
  \A i \in DOMAIN hist :
    (hist[i].op = "main" /\ hist[i].command \in UploadCommands
       /\ hist[i].exit = 0)
    => /\ hist[i].returned
       /\ hist[i].ret = TRUE

CliOps == {"main", "old_main"}

\* C18: a command that fails with an IgiturError-class error prints the
\* message to standard error and exits with status 1; every other exit of
\* the command line interface, help included, is status 0.
C18_CliExitStatus ==
  \A i \in DOMAIN hist :
    hist[i].op \in CliOps =>
      IF hist[i].err.class \in IgiturErrorClasses
      THEN hist[i].exit = 1 /\ hist[i].stderr = hist[i].err.msg
      ELSE hist[i].exit = 0

\* The paths from the first component down to path itself.
PrefixesOf(path) == {SubSeq(path, 1, k) : k \in 1..Len(path)}

\* The local directory the folder fid of rem is downloaded to when the
\* folder root goes to destination.
RECURSIVE TargetOf(_, _, _, _)
TargetOf(rem, root, destination, fid) ==
  IF fid = root THEN destination
  ELSE LET f == CHOOSE n \in rem : n.id = fid
       IN Append(TargetOf(rem, root, destination, f.parent), f.name)

\* The folders of call i's remote tree whose local target existed as a
\* regular file before the call.
BlockedFolders(i) ==
  {f \in Subtree(hist[i].pre, hist[i].preHandle.folder_id) :
     /\ f.type \in FolderTypes
     /\ is_file(hist[i].preLocal,
                TargetOf(hist[i].pre, hist[i].preHandle.folder_id,
                         hist[i].arg, f.id))}

\* No listing of folder f and no download of a file of f in call i.
NothingAskedOf(i, f) ==
  \A k \in DOMAIN hist[i].log :
    /\ hist[i].log[k].op \in ListingOps => hist[i].log[k].target # f.id
    /\ hist[i].log[k].op = "download"
       => \A n \in hist[i].pre :
            n.id = hist[i].log[k].target => n.parent # f.id

\* Download-sync destination handling, with the error the call ends with
\* left open: a missing destination is created with all its missing
\* components, and a destination that exists as a regular file, for the
\* call or for a sub-folder it descends to, ends the call with the error
\* before any listing or download request for that folder.
DestinationHandled(i, error) ==
  LET fs == hist[i].preLocal
      destination == hist[i].arg
  IN /\ (/\ ~exists(fs, destination)
          /\ \A q \in PrefixesOf(destination) : ~is_file(fs, q))
        => \A q \in PrefixesOf(destination) : is_dir(PostLocal(i), q)
     /\ is_file(fs, destination)
        => /\ hist[i].log = <<>>
           /\ PostLocal(i) = fs
     /\ \A f \in BlockedFolders(i) :
          /\ hist[i].err = error
          /\ NothingAskedOf(i, f)

C20_ResizedUploadFiltering ==
  \A i \in DOMAIN hist :
    hist[i].op = "upload_folder_resized" =>
      LET log == hist[i].log
      IN /\ Requests(i, DeleteOps) = {}
         /\ hist[i].pre \subseteq PostRemote(i)
         /\ \A k \in DOMAIN log :
              /\ log[k].op = "resize" => TakenSource(log[k].name)
              /\ log[k].op = "upload_file"
                 => /\ k > 1
                    /\ log[k - 1].op = "resize"
                    /\ log[k - 1].target = log[k].target
                    /\ log[k - 1].data = log[k].name
                    /\ log[k].name = stem(log[k - 1].name) \o <<".", "j", "p", "g">>

\* A resized upload with the skip fragment "A" that passed over a.PNG for
\* its name and n.txt for its extension, and uploaded o.jpg.
C20_Witness ==
  /\ Len(hist) = 1
  /\ hist[1].op = "upload_folder_resized"
  /\ uploader.skip_file_names = << <<"A">> >>
  /\ is_file(localFs, Append(L, <<"a", ".", "P", "N", "G">>))
  /\ is_file(localFs, Append(L, <<"n", ".", "t", "x", "t">>))
  /\ is_file(localFs, Append(L, <<"o", ".", "j", "p", "g">>))
  /\ Cardinality(Requests(1, {"resize"})) = 1
  /\ Cardinality(Requests(1, {"register"})) = 1
  /\ hist[1].ret = TRUE
  /\ \E n \in remote \ hist[1].pre : n.download_name = <<"o", ".", "j", "p", "g">>


(***************************************************************************)
(* C21: the temporary directory of the resized upload.                      *)
(***************************************************************************)
\* The resized-upload calls that got as far as an image transform.
Transformed(i) ==
  /\ hist[i].op = "upload_folder_resized"
  /\ \E k \in DOMAIN hist[i].log : hist[i].log[k].op = "resize"

\* C21: whenever upload_folder_resized returns True, returns False after an
\* upload failure, or raises from the image transform or the upload, no
\* temporary directory or file created by it still exists.
C21_TemporaryRemoved ==
  \A i \in DOMAIN hist :
    hist[i].op = "upload_folder_resized" => hist[i].tmp = {}

\* A resized upload left by an exception of the upload after one image was
\* uploaded and a second one transformed.
C21_Witness ==
  \E i \in DOMAIN hist :
    /\ Transformed(i)
    /\ hist[i].err.class = "ConnectionError"
    /\ \E k \in DOMAIN hist[i].log : hist[i].log[k].op = "register"
    /\ hist[i].tmp = {}


(***************************************************************************)
(* C22: remote-orphan pruning only removes.                                 *)
(***************************************************************************)
\* The requests by which a pass adds to the remote store.
AddingOps == {"upload_file", "sign", "store", "register", "create_folder"}

OrphanPasses == {i \in DOMAIN hist : hist[i].op = "delete_remote_orphan_files"}

\* C22: delete_remote_orphan_files never issues an upload, a sign request or
\* a sub-folder creation, never deletes a remote item that is matched
\* locally, and never creates, modifies or deletes anything in the local
\* filesystem; this with and without dry_run, and however the pass ends.
C22_OrphanPruningOnlyRemoves ==
  \A i \in OrphanPasses :
    /\ \A k \in DOMAIN hist[i].log : hist[i].log[k].op \notin AddingOps
    /\ PostRemote(i) \subseteq hist[i].pre
    /\ \A n \in hist[i].pre \ PostRemote(i) :
         ~MatchedLocally(hist[i].pre, hist[i].preLocal, n)
    /\ PostLocal(i) = hist[i].preLocal

\* A pruning that deleted a remote item and left in place a remote file
\* matched by a local file and a sub-folder matched by a local directory.
C22_Witness ==
  \E i \in OrphanPasses :
    /\ hist[i].pre \ PostRemote(i) # {}
    /\ \E n \in PostRemote(i) :
         /\ n.id # RootId /\ n.type \in FileTypes
         /\ MatchedLocally(hist[i].pre, hist[i].preLocal, n)
    /\ \E n \in PostRemote(i) :
         /\ n.id # RootId /\ n.type \in FolderTypes
         /\ MatchedLocally(hist[i].pre, hist[i].preLocal, n)


(***************************************************************************)
(* C23: the value download returns.                                         *)
(***************************************************************************)
\* Call i is a download that ended without an exception.
Downloaded(i) == hist[i].op = "download" /\ Completed(i)

\* C23: GaudeamDriveFolder.download returns True when the download of the
\* folder, its sub-folders and its files was successful.
C23_DownloadReturnsTrue ==
  \A i \in DOMAIN hist :
    Downloaded(i) => hist[i].ret # null /\ hist[i].ret = TRUE


(***************************************************************************)
(* C24: create-or-reuse of sub-folders.                                     *)
(***************************************************************************)
SyncPasses == {i \in DOMAIN hist :
                 hist[i].op \in {"upload_folder", "upload_folder_resized"}}

\* No two folders of one parent have the same name.
UniqueSiblingFolders(rem) ==
  \A a \in rem, b \in rem :
    (/\ a.type \in FolderTypes /\ b.type \in FolderTypes
     /\ a.parent = b.parent /\ a.name = b.name) => a.id = b.id

\* The remote folders that correspond to the local directory at path.
FoldersAt(rem, path) ==
  {n \in rem : n.type \in FolderTypes /\ LocalPathOf(rem, n.id) = path}

\* The sub-folder creations requested by call i.
Creations(i) == Requests(i, {"create_folder"})

\* C24: upload_folder and upload_folder_resized create a remote sub-folder
\* for a local directory only if no sub-folder of exactly that name exists in
\* the remote folder at the time of creation, and otherwise descend into the
\* existing one: after a successful pass on a tree with unique sibling folder
\* names every local directory has exactly one remote folder, the one that
\* was there if there was one.  Hence a pass started on a tree with unique
\* sibling folder names never produces two sibling folders of one name.
C24_CreateOrReuse ==
  \A i \in SyncPasses :
    /\ \A k \in Creations(i) : ~hist[i].log[k].dup
    /\ UniqueSiblingFolders(hist[i].pre) =>
         /\ UniqueSiblingFolders(PostRemote(i))
         /\ (Completed(i) /\ hist[i].ret = TRUE) =>
              \A e \in hist[i].preLocal :
                (e.kind = "dir" /\ e.path # L) =>
                  /\ Cardinality(FoldersAt(PostRemote(i), e.path)) = 1
                  /\ FoldersAt(hist[i].pre, e.path)
                       \subseteq FoldersAt(PostRemote(i), e.path)

\* A successful pass that descended into an existing sub-folder for one
\* local directory and created a sub-folder for another.
C24_Witness ==
  \E i \in SyncPasses :
    /\ Completed(i) /\ hist[i].ret = TRUE
    /\ UniqueSiblingFolders(hist[i].pre)
    /\ Creations(i) # {}
    /\ \E e \in hist[i].preLocal :
         /\ e.kind = "dir" /\ e.path # L
         /\ FoldersAt(hist[i].pre, e.path) # {}


(***************************************************************************)
(* C25: empty-folder pruning never deletes content.                         *)
(***************************************************************************)
EmptyPrunings == {i \in DOMAIN hist : hist[i].op = "delete_empty_sub_folders"}

\* At request k of call i the folder with id fid has no sub-folder and no
\* file: it held no file before the call, and each of its sub-folders was
\* deleted by an earlier request.
EmptyAtRequest(i, k, fid) ==
  \A c \in Children(hist[i].pre, fid) :
    /\ c.type \notin FileTypes
    /\ c.type \in FolderTypes =>
         \E j \in Requests(i, {"delete_folder"}) :
           j < k /\ hist[i].log[j].target = c.id

\* C25: delete_empty_sub_folders deletes a folder only if, at the moment of
\* deletion, it has zero sub-folders and zero files; a folder whose subtree
\* contains at least one file is never deleted and no file is ever deleted by
\* this pass, with and without dry_run.
C25_PruningKeepsContent ==
  \A i \in EmptyPrunings :
    /\ Requests(i, {"delete_file"}) = {}
    /\ \A k \in Requests(i, {"delete_folder"}) :
         EmptyAtRequest(i, k, hist[i].log[k].target)
    /\ \A n \in hist[i].pre :
         (n.type \in FileTypes \/ HoldsFile(hist[i].pre, n))
           => n \in PostRemote(i)
    /\ PostRemote(i) \subseteq hist[i].pre

\* A pruning that deleted an empty folder next to a folder that holds
\* nothing but a file, and kept that folder and the file.
C25_Witness ==
  \E i \in EmptyPrunings :
    /\ hist[i].pre \ PostRemote(i) # {}
    /\ \E n \in PostRemote(i), f \in PostRemote(i) :
         /\ n.id # RootId /\ n.type \in FolderTypes
         /\ f.type \in FileTypes /\ f.parent = n.id
         /\ Children(hist[i].pre, n.id) = {f}


(***************************************************************************)
(* C26: tree-shape correspondence after upload.                             *)
(***************************************************************************)
\* The entries directly below the local directory at path.
EntriesBelow(fs, path) ==
  {e \in fs : Len(e.path) = Len(path) + 1
                /\ SubSeq(e.path, 1, Len(path)) = path}

\* The remote folder fid holds what the local directory at path holds: a
\* file of the download name of every local file, and for every local
\* sub-directory a sub-folder of its name that holds what it holds.
RECURSIVE Mirrors(_, _, _, _)
Mirrors(rem, fs, path, fid) ==
  \A e \in EntriesBelow(fs, path) :
    IF e.kind = "file"
    THEN \E f \in Children(rem, fid) :
           f.type \in FileTypes /\ f.download_name = EntryName(e)
    ELSE \E c \in Children(rem, fid) :
           /\ c.type \in FolderTypes /\ c.name = EntryName(e)
           /\ Mirrors(rem, fs, e.path, c.id)

UploadSyncs == {i \in DOMAIN hist : hist[i].op = "upload_folder"}

\* C26: when upload_folder(L, R) returns True, every local directory at
\* relative path d under L has a remote folder reached from R through
\* sub-folders named like the components of d, and every local file d/f has
\* a remote file with download name f in that folder.
C26_UploadMirrorsLocalTree ==
  \A i \in UploadSyncs :
    (Completed(i) /\ hist[i].ret = TRUE) =>
      Mirrors(PostRemote(i), hist[i].preLocal, L, hist[i].preHandle.folder_id)

\* An upload that returned True for a local tree with a file in a
\* sub-directory and a file that the remote folder held already.
C26_Witness ==
  \E i \in UploadSyncs :
    /\ Completed(i) /\ hist[i].ret = TRUE
    /\ \E e \in hist[i].preLocal : e.kind = "file" /\ Len(e.path) = Len(L) + 2
    /\ Requests(i, {"register"}) # {}
    /\ \E e \in EntriesBelow(hist[i].preLocal, L) :
         /\ e.kind = "file"
         /\ \E f \in Children(hist[i].pre, RootId) :
              f.type \in FileTypes /\ f.download_name = EntryName(e)


(***************************************************************************)
(* C27: tree-shape correspondence after download.                           *)
(***************************************************************************)
\* The local directory at path holds what the remote folder fid holds: a
\* directory for every sub-folder, holding what it holds, and for every file
\* an entry of its download name, which is a regular file if asFile.
RECURSIVE LocalMirrors(_, _, _, _, _)
LocalMirrors(rem, fs, fid, path, asFile) ==
  \A c \in Children(rem, fid) :
    /\ c.type \in FolderTypes =>
         /\ is_dir(fs, Append(path, c.name))
         /\ LocalMirrors(rem, fs, c.id, Append(path, c.name), asFile)
    /\ c.type \in FileTypes =>
         IF asFile THEN is_file(fs, Append(path, c.download_name))
         ELSE exists(fs, Append(path, c.download_name))

\* Request j of call i is about the folder c or what is below it: a listing
\* of a folder of c's subtree or the download of a file of it.
Concerns(i, j, c) ==
  \E n \in Subtree(hist[i].pre, c.id) :
    /\ hist[i].log[j].target = n.id
    /\ hist[i].log[j].op \in ListingOps \cup {"download"}

\* In call i every request about a sub-folder of a folder comes before the
\* downloads of that folder's own files.
SubFoldersFirst(i) ==
  \A k \in Requests(i, {"download"}) :
    \A f \in hist[i].pre, c \in hist[i].pre :
      (/\ f.id = hist[i].log[k].target
       /\ c.parent = f.parent /\ c.type \in FolderTypes)
      => \A j \in DOMAIN hist[i].log : Concerns(i, j, c) => j < k

\* C27 as stated: when download(L) on remote folder R completes without
\* error, every remote sub-folder at path d below R exists as the local
\* directory L/d and every remote file with download name f in it exists as
\* the local file L/d/f; sub-folders of a folder are processed before that
\* folder's own files.
C27_DownloadMirrorsAsFiles ==
  \A i \in DOMAIN hist :
    Downloaded(i) =>
      /\ LocalMirrors(hist[i].pre, PostLocal(i), hist[i].preHandle.folder_id,
                      hist[i].arg, TRUE)
      /\ SubFoldersFirst(i)

\* The local path the remote file n is downloaded to by call i.
FileTarget(i, n) ==
  Append(TargetOf(hist[i].pre, hist[i].preHandle.folder_id, hist[i].arg,
                  n.parent),
         n.download_name)

\* C27 amended: the same, a remote file with download name f having an
\* entry L/d/f that is a regular file unless a directory was at L/d/f
\* before the call or a sub-folder next to the file has the name f.
C27_DownloadMirrors ==
  \A i \in DOMAIN hist :
    Downloaded(i) =>
      /\ LocalMirrors(hist[i].pre, PostLocal(i), hist[i].preHandle.folder_id,
                      hist[i].arg, FALSE)
      /\ \A n \in hist[i].pre :
           n.type \in FileTypes =>
             \/ is_file(PostLocal(i), FileTarget(i, n))
             \/ is_dir(hist[i].preLocal, FileTarget(i, n))
             \/ \E c \in Children(hist[i].pre, n.parent) :
                  c.type \in FolderTypes /\ c.name = n.download_name
      /\ SubFoldersFirst(i)

\* A completed download that fetched the file of a sub-folder of R into a
\* directory it created, and skipped a file of R whose target is a directory.
C27_Witness ==
  \E i \in DOMAIN hist :
    /\ Downloaded(i)
    /\ \E k \in Requests(i, {"download"}) :
         \E g \in hist[i].pre :
           /\ g.id = hist[i].log[k].target /\ g.parent # RootId
           /\ is_file(PostLocal(i), FileTarget(i, g))
           /\ ~exists(hist[i].preLocal, SubSeq(FileTarget(i, g), 1, Len(L) + 1))
    /\ \E n \in hist[i].pre :
         /\ n.type \in FileTypes /\ n.parent = RootId
         /\ is_dir(PostLocal(i), FileTarget(i, n))


(***************************************************************************)
(* C28: the resized upload and remote-orphan pruning agree.                 *)
(***************************************************************************)
\* Call i is a remote-orphan pruning that follows a resized upload which
\* returned True on a remote folder R that was empty.
PrunedAfterUpload(i) ==
  /\ i > 1
  /\ hist[i].op = "delete_remote_orphan_files"
  /\ hist[i - 1].op = "upload_folder_resized"
  /\ Completed(i - 1) /\ hist[i - 1].ret = TRUE
  /\ Children(hist[i - 1].pre, RootId) = {}

\* C28: after upload_folder_resized(L, R) returned True on an initially
\* empty remote folder R, delete_remote_orphan_files(L, R) by the same
\* uploader deletes no file and no folder.
C28_UploadAndPruningAgree ==
  \A i \in DOMAIN hist :
    PrunedAfterUpload(i) =>
      /\ Completed(i)
      /\ Requests(i, DeleteOps) = {}
      /\ PostRemote(i) = hist[i].pre

\* A deleting pruning after a resized upload that uploaded a.jpg for the
\* local a.PNG and created a sub-folder.
C28_Witness ==
  \E i \in DOMAIN hist :
    /\ PrunedAfterUpload(i)
    /\ ~hist[i].dry_run
    /\ \E e \in hist[i].preLocal :
         e.kind = "file" /\ EntryName(e) = <<"a", ".", "P", "N", "G">>
    /\ \E n \in hist[i].pre :
         n.type \in FileTypes /\ n.download_name = <<"a", ".", "j", "p", "g">>
    /\ \E n \in hist[i].pre : n.type \in FolderTypes /\ n.id # RootId


(***************************************************************************)
(* C29: a rejected file download.                                           *)
(***************************************************************************)
\* The requests of call i that are file downloads, in their order.
DownloadRequests(i) == SelectSeq([k \in DOMAIN hist[i].log |-> k],
                                 LAMBDA k : hist[i].log[k].op = "download")

\* Call i is a download in which the remote rejected a file download, the
\* only one of the call for its target path.
Rejected(i) ==
  /\ hist[i].op = "download"
  /\ hist[i].faults.dlFail > 0
  /\ Len(DownloadRequests(i)) >= hist[i].faults.dlFail
  /\ LET r == DownloadRequests(i)
     IN \A j \in DOMAIN r :
          hist[i].log[r[j]].data = hist[i].log[r[hist[i].faults.dlFail]].data
            => j = hist[i].faults.dlFail

\* The rejected request of call i.
RejectedRequest(i) == hist[i].log[DownloadRequests(i)[hist[i].faults.dlFail]]

\* C29: a file download that the remote rejects (non-200 answer) creates no
\* local file at L/<download name>, so a later Download-sync run attempts
\* that file again instead of skipping it as already present.
C29_RejectedDownloadLeavesNoFile ==
  \A i \in DOMAIN hist :
    Rejected(i) =>
      /\ ~exists(PostLocal(i), RejectedRequest(i).data)
      /\ (i < Len(hist) /\ hist[i + 1].op = "download"
            /\ hist[i + 1].pre = hist[i].pre /\ Completed(i))
         => \E k \in Requests(i + 1, {"download"}) :
              hist[i + 1].log[k].data = RejectedRequest(i).data


(***************************************************************************)
(* C30: get_members ends and returns each member once.                      *)
(***************************************************************************)
\* The returned list holds every member of the directory and no member twice.
EachMemberOnce ==
  /\ Range(directory) \subseteq Range(paging.members)
  /\ Cardinality(Range(paging.members)) = Len(paging.members)

\* The call has ended, with its result or with an exception.
Ended == paging.pc \in {"returned", "raised"}

\* C30: get_members terminates and returns each member exactly once, for
\* every member directory, including one whose size is not a multiple of 100
\* or that shrinks between the count request and the page requests.
C30_GetMembersTerminates ==
  /\ <>Ended
  /\ [](paging.pc = "returned" => EachMemberOnce)

=============================================================================
